---- MODULE Spec2Model ----
(***************************************************************************)
(* Model of thalesfsp/committer: the token-based text splitter             *)
(* (internal/textsplitter), ChunkDiff and the commit-message generation    *)
(* loop (internal/provider).                                               *)
(*                                                                         *)
(* Go strings are modelled as sequences of one-character strings.          *)
(* The specifications share the module's variables: SpecSplit drives the   *)
(* splitter, SpecLoop drives GenerateCommitMessageLoop, SpecRun drives the *)
(* root command (which calls both), SpecSpinner drives concurrent calls of *)
(* SprinnerStart / SprinnerStop.                                           *)
(***************************************************************************)
EXTENDS Integers, Sequences, FiniteSets, TLC

VARIABLES
    \* ---- splitter / ChunkDiff -------------------------------------------
    text,          \* the input text (diff) handed to ChunkDiff / SplitText
    ChunkSize,     \* TokenSplitter.ChunkSize
    ChunkOverlap,  \* TokenSplitter.ChunkOverlap
    spc,           \* position: "none" | "idle" | "loop" | "done" | "error" | "panic"
    via,           \* "none" | "fast" (ChunkDiff fast path) | "split" (SplitText)
    tokenIDs,      \* tk.Encode(text)
    startIdx,      \* loop variable of splitTextIntoChunks
    endIdx,        \* loop variable of splitTextIntoChunks
    chunks,        \* the result slice
    ranges,        \* history: the [startIdx, endIdx) of every appended chunk
    splitErr,      \* error returned by construction / SplitText ("" = nil)
    EncodingName,  \* TokenSplitter.EncodingName
    ModelName,     \* TokenSplitter.ModelName
    tkLoadable,    \* environment: tiktoken can load its encoding data
    tokenizer,     \* the encoding the tokenizer was initialised with ("" = none)
    maxCharsIn,    \* history: <<maxChars>> once ChunkDiff was called, else <<>>
    cdErr,         \* error returned by ChunkDiff ("" = nil)
    prevSplit,     \* history: <<result of the previous SplitText call>>, else <<>>
    \* ---- GenerateCommitMessageLoop --------------------------------------
    lchunks,               \* the chunks argument
    lpc,                   \* "generating" | "presenting" | "done" | "failed" | "exhausted" | "exited"
    attempt,               \* outer loop counter
    idx,                   \* inner loop index i (0-based)
    additionalInstructions,
    message,               \* message returned by the last GenerateCommitMessage
    finalMessage,          \* first return value of the loop
    lerr,                  \* second return value of the loop ("" = nil)
    callLog,               \* history: one record per LLM call
    decisions,             \* history: the answers given at the decision points
    typed,                 \* history: what the text area returned
    lcause,                \* the error wrapped (%w) by lerr ("" = none)
    changes,               \* history: <<changeChoice, free text>> of every "Try again"
    now,                   \* the clock, in the time unit of llmAPICallTimeout
    \* ---- spinner, as seen by the main goroutine ---------------------------
    debugMode,             \* shared.IsDebugMode(): SYPL_LEVEL == "debug"
    spinnerProgram,        \* the global spinnerProgram: 0 = nil, else a program id
    overlapped,            \* history: the prompts opened while a spinner was running
    \* ---- rootCmd.Run ------------------------------------------------------
    rpc,                   \* position of the root command
    chunkThreshold,        \* the --chunk-threshold flag
    gitLog,                \* history: the mutating git commands invoked
    runErr,                \* the error the run died with ("" = none)
    tree,                  \* history: <<HasStagedChanges(), IsDirty()>> once read
    answers,               \* history: <<question, answer>> of every yes/no prompt
    \* ---- concurrent callers of SprinnerStart / SprinnerStop ---------------
    spinnerMutex,          \* 0 = unlocked, else the caller holding it
    cpc,                   \* position of every caller
    live,                  \* the spinner programs created and not yet quit
    created,               \* number of spinner programs created so far
    calls,                 \* number of calls started so far
    goroutines,            \* the goroutines launched by SprinnerStart, by launch order
    \* ---- the document command ---------------------------------------------
    dpc,                   \* position of the document command
    filePaths,             \* the --file-paths flag
    contentOfAllFiles,     \* the slice shared by the callbacks of processFiles
    wpc,                   \* position of the callback of every file path
    wlocal,                \* the slice every callback read when it appends
    errs,                  \* the errors concurrentloop.Map collected
    docContent,            \* first return value of processFiles
    docErr,                \* the error the command died with ("" = none)
    docLog,                \* history: one record per generateDocumentation call
    finalDocumentation,    \* the slice processChunks builds
    saved,                 \* <<text written to documentation.md>>, else <<>>
    \* ---- the choice prompt and the yes/no prompt ---------------------------
    ppc,                   \* "none" | "open" | "returned" | "exited"
    defaultChoice,         \* <<defaultChoice>> of a yes/no prompt, else <<>>
    choices,               \* ChoiceModel.choices
    cursor,                \* ChoiceModel.cursor
    choice,                \* ChoiceModel.choice
    keys,                  \* history: the messages Update received
    result                 \* <<value returned to the caller>>, else <<>>

splitVars == <<text, ChunkSize, ChunkOverlap, spc, via, tokenIDs, startIdx,
               endIdx, chunks, ranges, splitErr, EncodingName, ModelName,
               tkLoadable, prevSplit, tokenizer, maxCharsIn, cdErr>>

loopVars == <<lchunks, lpc, attempt, idx, additionalInstructions, message,
              finalMessage, lerr, callLog, decisions, typed, lcause, changes,
              now>>

spinVars == <<debugMode, spinnerProgram, overlapped>>

runVars == <<rpc, chunkThreshold, gitLog, runErr, tree, answers>>

concVars == <<spinnerMutex, cpc, live, created, calls, goroutines>>

docVars == <<dpc, filePaths, contentOfAllFiles, wpc, wlocal, errs, docContent,
             docErr, docLog, finalDocumentation, saved>>

promptVars == <<ppc, defaultChoice, choices, cursor, choice, keys, result>>

vars == <<splitVars, loopVars, spinVars, runVars, concVars, docVars, promptVars>>

\* What the splitter leaves alone, and what the generation loop leaves alone.
notSplit == <<loopVars, spinVars, runVars, concVars, docVars, promptVars>>
notLoop == <<splitVars, runVars, concVars, docVars, promptVars>>

(***************************************************************************)
(* Bounds of the model.                                                    *)
(***************************************************************************)
MaxLen == 4
MaxSize == 3
MaxOverlap == 2
MaxThreshold == 3
MaxTotalChunks == 3
NumCallers == 2
MaxCalls == 4

\* Cap on the iterations of a chunking loop that does not terminate.
MaxIter == MaxLen + 2

(***************************************************************************)
(* Program constants.                                                      *)
(***************************************************************************)
DefaultTokenChunkOverlap == 100
DefaultTokenChunkSize == 4096
DefaultTokenEncoding == "cl100k_base"
DefaultTokenModelName == "gpt-3.5-turbo"
maxAttempts == 5

\* The --llm-api-call-timeout flag, the time an LLM call that answers takes and
\* the time the user spends at a decision point (longer than the timeout).
llmAPICallTimeout == 2
CallTime == 1
ThinkTime == 3

(***************************************************************************)
(* Texts and the tokenizer.                                                *)
(***************************************************************************)
Alphabet == {"a", "b"}

Texts == UNION {[1..n -> Alphabet] : n \in 0..MaxLen}

RECURSIVE Flatten(_)
Flatten(ss) == IF ss = <<>> THEN <<>> ELSE Head(ss) \o Flatten(Tail(ss))

\* tk.Encode: a byte-pair tokenizer with the single merge "a"+"b" -> "ab".
\* A token is identified by the piece of text it stands for.
RECURSIVE Encode(_)
Encode(t) ==
    IF t = <<>> THEN <<>>
    ELSE IF Len(t) >= 2 /\ t[1] = "a" /\ t[2] = "b"
         THEN <<(<<"a", "b">>)>> \o Encode(SubSeq(t, 3, Len(t)))
         ELSE <<(<<t[1]>>)>> \o Encode(Tail(t))

\* tk.Decode: the concatenation of the tokens' pieces.
Decode(ids) == Flatten(ids)

\* processChunk
processChunk(ids) == Decode(ids)

\* Go's s[lo:hi] on a slice with len = cap: panics unless 0 <= lo <= hi <= len.
SliceOK(s, lo, hi) == 0 <= lo /\ lo <= hi /\ hi <= Len(s)

Slice(s, lo, hi) == SubSeq(s, lo + 1, hi)

(***************************************************************************)
(* The splitter.                                                           *)
(***************************************************************************)
\* NewTokenSplitter(threshold):
\* <<ChunkSize, ChunkOverlap, EncodingName, ModelName>>
NewTokenSplitter(threshold) ==
    IF threshold > 0
    THEN <<threshold, DefaultTokenChunkOverlap,
           DefaultTokenEncoding, DefaultTokenModelName>>
    ELSE <<DefaultTokenChunkSize, DefaultTokenChunkOverlap,
           DefaultTokenEncoding, DefaultTokenModelName>>

\* The encodings tiktoken knows and the models it maps to them.
KnownEncodings == {"cl100k_base"}
ModelEncoding == [m \in {"gpt-3.5-turbo"} |-> "cl100k_base"]

\* The names a caller may put in a TokenSplitter.
EncodingNames == {"cl100k_base", "no_such_encoding", ""}
ModelNames == {"gpt-3.5-turbo", "no-such-model"}

\* tiktoken.GetEncoding: the encoding, or "" for an error.
GetEncoding(name, loadable) ==
    IF name \in KnownEncodings /\ loadable THEN name ELSE ""

\* tiktoken.EncodingForModel: the model's encoding, or "" for an error.
EncodingForModel(model, loadable) ==
    IF model \in DOMAIN ModelEncoding
    THEN GetEncoding(ModelEncoding[model], loadable)
    ELSE ""

\* Variant: an unknown encoding name falls back to the model's encoding.
initializeTokenizer_Fallback(enc, model, loadable) ==
    IF enc # "" /\ GetEncoding(enc, loadable) # ""
    THEN GetEncoding(enc, loadable)
    ELSE EncodingForModel(model, loadable)

\* TokenSplitter.initializeTokenizer: the encoding in use, or "" for an error.
initializeTokenizer(enc, model, loadable) ==
    IF enc # "" THEN GetEncoding(enc, loadable)
    ELSE EncodingForModel(model, loadable)

\* Variant: the first end index is not clipped to ChunkSize.
calculateInitialEndIndex_Unclipped(size, totalTokens) == totalTokens

calculateInitialEndIndex(size, totalTokens) ==
    IF size < totalTokens THEN size ELSE totalTokens

\* Variant: the sign of the advance is swapped.
calculateNextIndices_Backward(size, overlap, currentStart, totalTokens) ==
    LET nextStart == currentStart - size + overlap
        nextEnd   == nextStart + size
    IN  <<nextStart, IF nextEnd > totalTokens THEN totalTokens ELSE nextEnd>>

\* Variant: the advance ignores the overlap.
calculateNextIndices_NoOverlap(size, overlap, currentStart, totalTokens) ==
    LET nextStart == currentStart + size
        nextEnd   == nextStart + size
    IN  <<nextStart, IF nextEnd > totalTokens THEN totalTokens ELSE nextEnd>>

\* Variant: the advance is one token too long.
calculateNextIndices_SkipOne(size, overlap, currentStart, totalTokens) ==
    LET nextStart == currentStart + size - overlap + 1
        nextEnd   == nextStart + size
    IN  <<nextStart, IF nextEnd > totalTokens THEN totalTokens ELSE nextEnd>>

calculateNextIndices(size, overlap, currentStart, totalTokens) ==
    LET nextStart == currentStart + size - overlap
        nextEnd   == nextStart + size
    IN  <<nextStart, IF nextEnd > totalTokens THEN totalTokens ELSE nextEnd>>

\* The [startIdx, endIdx) ranges splitTextIntoChunks slices for totalTokens
\* tokens, computed on the indices alone (valid configurations only).
RECURSIVE SplitRangesFrom(_, _, _, _, _)
SplitRangesFrom(size, overlap, currentStart, currentEnd, totalTokens) ==
    IF currentStart < totalTokens
    THEN LET next == calculateNextIndices(size, overlap, currentStart, totalTokens)
         IN  <<<<currentStart, currentEnd>>>> \o
             SplitRangesFrom(size, overlap, next[1], next[2], totalTokens)
    ELSE <<>>

SplitRanges(size, overlap, totalTokens) ==
    SplitRangesFrom(size, overlap, 0,
                    calculateInitialEndIndex(size, totalTokens), totalTokens)

\* Entry of SplitText / splitTextIntoChunks for a splitter <<size, overlap>>:
\* the tokenizer is initialised, the text encoded, the indices initialised.
\* When the tokenizer cannot be initialised SplitText returns nil and
\* ERR_FAILED_TO_INIT_CHUNKER.
\* Variant: the result slice of the previous call is kept.
NewChunks_Reused(previous) == previous

\* chunks := make([]string, 0)
NewChunks(previous) == <<>>

SplitTextEnter(cfg) ==
    LET tk == initializeTokenizer(cfg[3], cfg[4], tkLoadable)
    IN  /\ ChunkSize' = cfg[1]
        /\ ChunkOverlap' = cfg[2]
        /\ EncodingName' = cfg[3]
        /\ ModelName' = cfg[4]
        /\ tokenizer' = tk
        /\ via' = "split"
        /\ chunks' = NewChunks(chunks)
        /\ ranges' = <<>>
        /\ startIdx' = 0
        /\ IF tk = ""
           THEN /\ tokenIDs' = <<>>
                /\ endIdx' = 0
                /\ spc' = "error"
                /\ splitErr' = "ERR_FAILED_TO_INIT_CHUNKER"
           ELSE /\ tokenIDs' = Encode(text)
                /\ endIdx' = calculateInitialEndIndex(cfg[1], Len(Encode(text)))
                /\ spc' = "loop"
                /\ splitErr' = ""

\* Variant: the threshold itself is excluded from the fast path.
FastPath_Strict(maxChars, diff) == Len(diff) < maxChars

\* if len(diff) <= maxChars
FastPath(maxChars, diff) == Len(diff) <= maxChars

\* ChunkDiff(maxChars, diff)
ChunkDiff(maxChars) ==
    /\ spc = "idle"
    /\ maxCharsIn' = <<maxChars>>
    /\ IF FastPath(maxChars, text)
       THEN /\ chunks' = <<text>>
            /\ via' = "fast"
            /\ spc' = "done"
            /\ cdErr' = ""
            /\ UNCHANGED <<ChunkSize, ChunkOverlap, tokenIDs, startIdx, endIdx,
                           ranges, splitErr, EncodingName, ModelName, tokenizer>>
       ELSE /\ SplitTextEnter(NewTokenSplitter(maxChars))
            /\ cdErr' = (IF splitErr' # "" THEN "ERR_FAILED_TO_CHUNK_DIFF" ELSE "")
    /\ UNCHANGED <<text, tkLoadable, prevSplit, notSplit>>

\* TokenSplitter{ChunkSize: size, ChunkOverlap: overlap, EncodingName: enc,
\*               ModelName: model}.SplitText(text)
SplitText(size, overlap, enc, model) ==
    /\ spc = "idle"
    /\ SplitTextEnter(<<size, overlap, enc, model>>)
    /\ UNCHANGED <<text, tkLoadable, prevSplit, maxCharsIn, cdErr, notSplit>>

\* One iteration of the for loop of splitTextIntoChunks.
SplitIterate ==
    /\ spc = "loop"
    /\ startIdx < Len(tokenIDs)
    /\ Len(chunks) < MaxIter
    /\ IF SliceOK(tokenIDs, startIdx, endIdx)
       THEN LET next == calculateNextIndices(ChunkSize, ChunkOverlap,
                                             startIdx, Len(tokenIDs))
            IN  /\ chunks' = Append(chunks,
                                    processChunk(Slice(tokenIDs, startIdx, endIdx)))
                /\ ranges' = Append(ranges, <<startIdx, endIdx>>)
                /\ startIdx' = next[1]
                /\ endIdx' = next[2]
                /\ UNCHANGED spc
       ELSE /\ spc' = "panic"
            /\ UNCHANGED <<chunks, ranges, startIdx, endIdx>>
    /\ UNCHANGED <<text, ChunkSize, ChunkOverlap, via, tokenIDs, splitErr,
                   EncodingName, ModelName, tkLoadable, prevSplit, tokenizer, maxCharsIn,
                   cdErr, notSplit>>

\* The loop condition fails: splitTextIntoChunks returns chunks.
SplitReturn ==
    /\ spc = "loop"
    /\ ~(startIdx < Len(tokenIDs))
    /\ spc' = "done"
    /\ UNCHANGED <<text, ChunkSize, ChunkOverlap, via, tokenIDs, startIdx, endIdx,
                   chunks, ranges, splitErr, EncodingName, ModelName, tkLoadable, prevSplit,
                   tokenizer, maxCharsIn, cdErr, notSplit>>

\* SprinnerStart, as executed by the main goroutine with the mutex free: the
\* new value of spinnerProgram. Outside debug mode it returns at once.
SprinnerStart(sp, debug) ==
    IF ~debug THEN sp
    ELSE IF sp # 0 THEN sp
    ELSE 1

\* SprinnerStop, as executed by the main goroutine with the mutex free.
SprinnerStop(sp) == IF sp # 0 THEN 0 ELSE sp

\* A blocking prompt is opened: it is recorded when a spinner is running.
PromptShown(name, sp, ov) == IF sp # 0 THEN ov \cup {name} ELSE ov

LoopIdle ==
    /\ lchunks = <<>>
    /\ lpc = "idle"
    /\ attempt = 0
    /\ idx = 0
    /\ additionalInstructions = ""
    /\ message = <<>>
    /\ finalMessage = <<>>
    /\ lerr = ""
    /\ callLog = <<>>
    /\ decisions = <<>>
    /\ typed = <<>>
    /\ lcause = ""
    /\ changes = <<>>
    /\ now = 0

\* No splitter constructed yet.
SplitFresh ==
    /\ ChunkSize = 0
    /\ ChunkOverlap = 0
    /\ EncodingName = ""
    /\ ModelName = ""
    /\ tokenizer = ""
    /\ via = "none"
    /\ tokenIDs = <<>>
    /\ startIdx = 0
    /\ endIdx = 0
    /\ chunks = <<>>
    /\ ranges = <<>>
    /\ splitErr = ""
    /\ maxCharsIn = <<>>
    /\ cdErr = ""
    /\ prevSplit = <<>>

SplitIdle ==
    /\ SplitFresh
    /\ spc = "idle"

\* No spinner running, no prompt opened.
SpinIdle ==
    /\ spinnerProgram = 0
    /\ overlapped = {}

\* The root command is not running.
RunIdle ==
    /\ rpc = "none"
    /\ chunkThreshold = 0
    /\ gitLog = <<>>
    /\ runErr = ""
    /\ tree = <<>>
    /\ answers = <<>>

\* The document command is not running.
DocIdle ==
    /\ dpc = "none"
    /\ filePaths = <<>>
    /\ contentOfAllFiles = <<>>
    /\ wpc = <<>>
    /\ wlocal = <<>>
    /\ errs = <<>>
    /\ docContent = <<>>
    /\ docErr = ""
    /\ docLog = <<>>
    /\ finalDocumentation = <<>>
    /\ saved = <<>>

\* No prompt is open.
PromptIdle ==
    /\ ppc = "none"
    /\ defaultChoice = <<>>
    /\ choices = <<>>
    /\ cursor = 0
    /\ choice = ""
    /\ keys = <<>>
    /\ result = <<>>

\* No concurrent caller of the spinner functions.
ConcIdle ==
    /\ spinnerMutex = 0
    /\ cpc = <<>>
    /\ live = {}
    /\ created = 0
    /\ calls = 0
    /\ goroutines = <<>>

InitSplit ==
    /\ DocIdle
    /\ PromptIdle
    /\ text \in Texts
    /\ tkLoadable \in BOOLEAN
    /\ SplitIdle
    /\ LoopIdle
    /\ debugMode = FALSE
    /\ SpinIdle
    /\ RunIdle
    /\ ConcIdle

NextSplit ==
    \/ \E maxChars \in -1..MaxThreshold : ChunkDiff(maxChars)
    \/ \E size \in -1..MaxSize, overlap \in 0..MaxOverlap,
          enc \in EncodingNames, model \in ModelNames :
          SplitText(size, overlap, enc, model)
    \/ SplitIterate
    \/ SplitReturn

SpecSplit == InitSplit /\ [][NextSplit]_vars

\* ChunkDiff on diffs longer than a threshold that is large enough for the
\* default overlap: diffs "abab..." (tokens "ab") and "abbabb..." (tokens
\* "ab", "b").
MinLongLen == 121
MaxLongLen == 128
LongThresholds == {120, 122}

LongText(n, first) == [i \in 1..n |-> IF i % 2 = 1 THEN first ELSE IF first = "a" THEN "b" ELSE "a"]

InitThreshold ==
    /\ DocIdle
    /\ PromptIdle
    /\ \E n \in MinLongLen..MaxLongLen, first \in {"a", "b"} : text = LongText(n, first)
    /\ tkLoadable \in BOOLEAN
    /\ SplitIdle
    /\ LoopIdle
    /\ debugMode = FALSE
    /\ SpinIdle
    /\ RunIdle
    /\ ConcIdle

NextThreshold ==
    \/ \E maxChars \in LongThresholds : ChunkDiff(maxChars)
    \/ SplitIterate
    \/ SplitReturn

SpecThreshold == InitThreshold /\ [][NextThreshold]_vars

\* What SplitText returned: the chunks and the error.
SplitResult == [chunks |-> chunks, err |-> splitErr]

\* SplitText is called once more on the same splitter value with the same
\* text, after the first call returned.
SplitTextAgain ==
    /\ spc \in {"done", "error"}
    /\ via = "split"
    /\ prevSplit = <<>>
    /\ prevSplit' = <<SplitResult>>
    /\ SplitTextEnter(<<ChunkSize, ChunkOverlap, EncodingName, ModelName>>)
    /\ UNCHANGED <<text, tkLoadable, maxCharsIn, cdErr, notSplit>>

NextTwice ==
    \/ \E size \in -1..MaxSize, overlap \in 0..MaxOverlap,
          enc \in EncodingNames, model \in ModelNames :
          SplitText(size, overlap, enc, model)
    \/ SplitIterate
    \/ SplitReturn
    \/ SplitTextAgain

SpecTwice == InitSplit /\ [][NextTwice]_vars

(***************************************************************************)
(* GenerateCommitMessageLoop.                                              *)
(***************************************************************************)
NL == "\n"

\* What the LLM may answer.
Responses == {<<"f", "i", "x">>, <<>>}

\* What the user may leave in the text area / type as free instructions.
TypedTexts == {<<"h", "e", "l", "l", "o">>, <<>>}
FreeTexts == {"", "explain why"}

ChangeChoices == {"Make more succinct", "Make more technical",
                  "Make less technical", "Write what should change"}

\* The k-th chunk handed to the loop.
ChunkText(k) == [j \in 1..k |-> "a"]

\* The fixed instructional strings of HandleTryAgain (abridged).
InstrSuccinct ==
    "Please make the commit message more succinct while still conveying the essence of the change."
InstrMoreTechnical ==
    "Please make the commit message more technical, adding IF POSSIBLE, more context and details aiding engineering comprehension: ..."
InstrLessTechnical ==
    "Please make commit messages non-technical, suitable for general audiences. ..."

\* Variant: the free text is dropped.
HandleTryAgain_DropsFreeText(changeChoice, free) ==
    CASE changeChoice = "Make more succinct" -> InstrSuccinct
      [] changeChoice = "Make more technical" -> InstrMoreTechnical
      [] changeChoice = "Make less technical" -> InstrLessTechnical
      [] OTHER -> ""

\* HandleTryAgain: the new additional instructions for the chosen change;
\* free is what MustPromptForInputTea returned.
HandleTryAgain(changeChoice, free) ==
    CASE changeChoice = "Make more succinct" -> InstrSuccinct
      [] changeChoice = "Make more technical" -> InstrMoreTechnical
      [] changeChoice = "Make less technical" -> InstrLessTechnical
      [] changeChoice = "Write what should change" -> free
      [] OTHER -> ""

\* The errors an LLM call may fail with (the last one when the timeout hits).
LLMErrors == {"provider error", "context deadline exceeded"}

\* Variant: the last generated message is returned along with the error.
OnLLMError_Partial(cause) ==
    /\ lpc' = "failed"
    /\ finalMessage' = message
    /\ lerr' = "failed to generate commit message"
    /\ lcause' = cause

\* if err != nil { return "", fmt.Errorf("failed to generate commit message: %w", err) }
OnLLMError(cause) ==
    /\ lpc' = "failed"
    /\ finalMessage' = <<>>
    /\ lerr' = "failed to generate commit message"
    /\ lcause' = cause

\* Variant: the approved message gets the newline of the manual branch.
ApproveResult_Newline(msg) == msg \o <<NL>>

\* case "Approve commit message": return message, nil
ApproveResult(msg) == msg

\* Variant: the content is returned as typed.
WriteYourselfResult_Raw(content) == content

\* case "Write commit message yourself": return content + "\n", nil
WriteYourselfResult(content) == content \o <<NL>>

\* Variant: off by one in the loop condition.
AttemptLoopCond_OffByOne(a) == a <= maxAttempts

\* for attempt := 0; attempt < maxAttempts; attempt++
AttemptLoopCond(a) == a < maxAttempts

\* The position after the inner loop of attempt a has ended (break, or range
\* exhausted): attempt++ and either the first chunk of the next attempt or,
\* the attempts (or the chunks) being exhausted, the final return.
AfterInnerLoop(a) ==
    IF AttemptLoopCond(a + 1) /\ Len(lchunks) > 0
    THEN /\ attempt' = a + 1
         /\ idx' = 0
         /\ lpc' = "generating"
         /\ UNCHANGED <<finalMessage, lerr>>
    ELSE /\ attempt' = a + 1
         /\ idx' = 0
         /\ lpc' = "exhausted"
         /\ finalMessage' = <<>>
         /\ lerr' = "maximum attempts reached"

\* Variant: no trailing break, the range loop goes on with the next chunk.
AfterSwitch_Continue ==
    IF idx + 1 < Len(lchunks)
    THEN /\ idx' = idx + 1
         /\ lpc' = "generating"
         /\ UNCHANGED <<attempt, finalMessage, lerr>>
    ELSE AfterInnerLoop(attempt)

\* The trailing statement of the inner loop body: an unconditional break.
AfterSwitch == AfterInnerLoop(attempt)

\* Variant: shared.NothingToDo returns to the loop instead of exiting.
NothingToDo_Returns == AfterSwitch

\* shared.NothingToDo called from the loop: os.Exit(0), nothing is returned.
NothingToDo ==
    /\ lpc' = "exited"
    /\ UNCHANGED <<attempt, idx, finalMessage, lerr>>

\* Entry of GenerateCommitMessageLoop.
LoopEnter ==
    /\ lpc = "start"
    /\ IF Len(lchunks) > 0
       THEN /\ lpc' = "generating"
            /\ UNCHANGED <<attempt, idx, finalMessage, lerr>>
       ELSE AfterInnerLoop(maxAttempts - 1)
    /\ UNCHANGED <<lchunks, additionalInstructions, message, callLog, decisions,
                   typed, lcause, changes, now, spinVars, notLoop>>

\* strconv of a non-negative integer (the %d verb): its decimal digits.
DigitChars == <<"0", "1", "2", "3", "4", "5", "6", "7", "8", "9">>
RECURSIVE Itoa(_)
Itoa(n) ==
    IF n < 10 THEN <<DigitChars[n + 1]>>
    ELSE Itoa(n \div 10) \o <<DigitChars[(n % 10) + 1]>>

\* commit.prompt (abridged to its two literal parts) and the git stats.
PromptTask == "## Task ... and based on the provided \"Change Statistics\" and \"Code Changes\". "
PromptTemplate == "## Commit Message Template ... Change Statistics:"
ChunkedNote == "Git diff is too big, so we chunked it into smaller parts!"
Stats == <<"1 file changed, 1 insertion(+)">>

\* fmt.Sprintf(commitPrompt, a1, stats, a3, diff, a5): the text as a sequence
\* of pieces (literal parts, characters, digits).
SprintfCommitPrompt(a1, stats, a3, diff, a5) ==
    <<PromptTask>> \o a1 \o <<NL, NL, PromptTemplate, NL, NL>> \o stats \o
    <<NL, NL>> \o a3 \o <<NL, NL>> \o diff \o <<NL, NL>> \o a5

\* fmt.Sprintf("Chunk %d of %d:", chunkNumber, totalChunks)
ChunkHeader(chunkNumber, totalChunks) ==
    <<"Chunk ">> \o Itoa(chunkNumber) \o <<" of ">> \o Itoa(totalChunks) \o <<":">>

\* Variant: a single chunk is framed as well.
IsChunked_Always(totalChunks) == totalChunks >= 1

\* if totalChunks > 1
IsChunked(totalChunks) == totalChunks > 1

\* The prompt GenerateCommitMessage builds.
BuildPrompt(stats, diff, chunkNumber, totalChunks, instructions) ==
    IF IsChunked(totalChunks)
    THEN SprintfCommitPrompt(<<ChunkedNote>>, stats,
                             ChunkHeader(chunkNumber, totalChunks), diff,
                             <<"**", instructions, "**">>)
    ELSE SprintfCommitPrompt(<<>>, stats, <<>>, diff,
                             <<"**", instructions, "**">>)

\* Variant: one deadline, derived when the loop starts, shared by all calls.
Deadline_Shared(start) == llmAPICallTimeout

\* context.WithTimeout(context.Background(), llmAPICallTimeout) in CallLLM.
Deadline(start) == start + llmAPICallTimeout

\* The time at which a call started at start returns: with its answer or
\* its own error after CallTime, at the deadline when that comes first.
CallEnd(start, cause) ==
    IF cause = "context deadline exceeded"
    THEN (IF Deadline(start) > start THEN Deadline(start) ELSE start)
    ELSE start + CallTime

\* SprinnerStart, then GenerateCommitMessage for chunk idx+1 of totalChunks;
\* the LLM answers response (ok) and the spinner is stopped, or the call fails
\* or times out (~ok) and the loop returns.
Generate(ok, response) ==
    /\ lpc = "generating"
    /\ \E cause \in (IF ok THEN {""} ELSE LLMErrors) :
          /\ (cause # "context deadline exceeded") =>
                (now + CallTime <= Deadline(now))
          /\ now' = CallEnd(now, cause)
          /\ callLog' = Append(callLog,
                               [attempt |-> attempt, chunkNumber |-> idx + 1,
                                totalChunks |-> Len(lchunks),
                                instructions |-> additionalInstructions,
                                prompt |-> BuildPrompt(Stats, lchunks[idx + 1],
                                                       idx + 1, Len(lchunks),
                                                       additionalInstructions),
                                start |-> now, deadline |-> Deadline(now),
                                end |-> CallEnd(now, cause),
                                ok |-> ok, error |-> cause,
                                response |-> IF ok THEN response ELSE <<>>])
          /\ IF ok
             THEN /\ message' = response
                  /\ lpc' = "presenting"
                  /\ spinnerProgram' =
                        SprinnerStop(SprinnerStart(spinnerProgram, debugMode))
                  /\ UNCHANGED <<finalMessage, lerr, lcause>>
             ELSE /\ OnLLMError(cause)
                  /\ spinnerProgram' = SprinnerStart(spinnerProgram, debugMode)
                  /\ UNCHANGED message
    /\ UNCHANGED <<lchunks, attempt, idx, additionalInstructions, decisions, typed,
                   changes, debugMode, overlapped, notLoop>>

\* choice == "Approve commit message"
Approve ==
    /\ lpc = "presenting"
    /\ now' = now + ThinkTime
    /\ decisions' = Append(decisions, "Approve commit message")
    /\ finalMessage' = ApproveResult(message)
    /\ lerr' = ""
    /\ lpc' = "done"
    /\ overlapped' = PromptShown("What would you like to do?", spinnerProgram,
                                 overlapped)
    /\ UNCHANGED <<lchunks, attempt, idx, additionalInstructions, message, callLog,
                   typed, lcause, changes, debugMode, spinnerProgram, notLoop>>

\* choice == "Try again": HandleTryAgain, break out of the switch, then the
\* trailing break of the inner loop. The input prompt that yields free is only
\* opened for "Write what should change".
TryAgain(changeChoice, free) ==
    /\ lpc = "presenting"
    /\ now' = now + ThinkTime
    /\ (changeChoice # "Write what should change") => (free = "")
    /\ decisions' = Append(decisions, "Try again")
    /\ additionalInstructions' = HandleTryAgain(changeChoice, free)
    /\ changes' = Append(changes, <<changeChoice, free>>)
    /\ AfterSwitch
    /\ overlapped' = PromptShown("What would you like to change?", spinnerProgram,
                         PromptShown("What would you like to do?", spinnerProgram,
                                     overlapped))
    /\ UNCHANGED <<lchunks, message, callLog, typed, lcause, debugMode,
                   spinnerProgram, notLoop>>

\* choice == "Write commit message yourself": CommitMessageTextArea returns the
\* text area's value when the user pressed Esc (outcome "esc"), an error when
\* the program failed to run (outcome "error").
WriteYourself(outcome, content) ==
    /\ lpc = "presenting"
    /\ now' = now + ThinkTime
    /\ decisions' = Append(decisions, "Write commit message yourself")
    /\ IF outcome = "esc"
       THEN /\ typed' = content
            /\ finalMessage' = WriteYourselfResult(content)
            /\ lerr' = ""
            /\ lpc' = "done"
            /\ UNCHANGED lcause
       ELSE /\ finalMessage' = <<>>
            /\ lerr' = "failed to get commit message"
            /\ lcause' = "tea program error"
            /\ lpc' = "failed"
            /\ UNCHANGED typed
    /\ overlapped' = PromptShown("text area", spinnerProgram,
                         PromptShown("What would you like to do?", spinnerProgram,
                                     overlapped))
    /\ UNCHANGED <<lchunks, attempt, idx, additionalInstructions, message, callLog,
                   changes, debugMode, spinnerProgram, notLoop>>

\* choice == "Exit" (shared.NothingToDo), or an interrupt keystroke (Ctrl+C,
\* Esc, q) in a prompt opened at this decision point (the choice prompt, the
\* prompts of HandleTryAgain, Ctrl+C in the text area): os.Exit(0).
Exit(how) ==
    /\ lpc = "presenting"
    /\ now' = now + ThinkTime
    /\ decisions' = Append(decisions, how)
    /\ NothingToDo
    /\ overlapped' = PromptShown("What would you like to do?", spinnerProgram,
                                 overlapped)
    /\ UNCHANGED <<lchunks, additionalInstructions, message, callLog, typed,
                   lcause, changes, debugMode, spinnerProgram, notLoop>>

InitLoop ==
    /\ DocIdle
    /\ PromptIdle
    /\ text = <<>>
    /\ tkLoadable = TRUE
    /\ SplitIdle
    /\ debugMode \in BOOLEAN
    /\ SpinIdle
    /\ RunIdle
    /\ ConcIdle
    /\ \E n \in 0..MaxTotalChunks : lchunks = [k \in 1..n |-> ChunkText(k)]
    /\ lpc = "start"
    /\ attempt = 0
    /\ idx = 0
    /\ additionalInstructions = ""
    /\ message = <<>>
    /\ finalMessage = <<>>
    /\ lerr = ""
    /\ callLog = <<>>
    /\ decisions = <<>>
    /\ typed = <<>>
    /\ lcause = ""
    /\ changes = <<>>
    /\ now = 0

NextLoop ==
    \/ LoopEnter
    \/ \E ok \in BOOLEAN, response \in Responses : Generate(ok, response)
    \/ Approve
    \/ \E changeChoice \in ChangeChoices, free \in FreeTexts :
          TryAgain(changeChoice, free)
    \/ \E outcome \in {"esc", "error"}, content \in TypedTexts :
          WriteYourself(outcome, content)
    \/ \E how \in {"Exit", "interrupt"} : Exit(how)

SpecLoop == InitLoop /\ [][NextLoop]_vars

(***************************************************************************)
(* rootCmd.Run: preflight, staging, diff, chunking, loop, commit, push, tag *)
(***************************************************************************)
\* The diffs git may return, the thresholds of --chunk-threshold (128000 is
\* the default) and the tag names the user may type.
RunDiffs == {<<"b", "a", "b">>}
RunThresholds == {0, 1, 128000}
TagNames == {"v1"}

\* The secondary choices exercised under the root command.
RunChangeChoices == {"Make more succinct", "Write what should change"}

\* An invocation of a git operation: its name, its argument, its outcome.
GitCall(op, arg, ok) == [op |-> op, arg |-> arg, ok |-> ok]

\* cliLogger.Fatalln(err): the process ends with the error.
Fatalln(err) ==
    /\ rpc' = "fatal"
    /\ runErr' = err

\* Variant: no final message counts as empty.
IsEmptyMessage_Never(m) == FALSE

\* commitMessage == ""
IsEmptyMessage(m) == m = <<>>

\* Variant: the staging prompt is shown whatever is staged.
NeedsStaging_Always(hasStaged) == TRUE

\* if !git.HasStagedChanges()
NeedsStaging(hasStaged) == ~hasStaged

\* Variant: anything but an interrupt pushes.
Pushes_UnlessInterrupted(answer) == answer # "interrupt"

\* if tui.MustPromptYesNoTea("Would you like to push the commits?", true)
Pushes(answer) == answer = "yes"

InitRun ==
    /\ DocIdle
    /\ PromptIdle
    /\ text = <<>>
    /\ tkLoadable \in BOOLEAN
    /\ SplitFresh
    /\ spc = "none"
    /\ LoopIdle
    /\ debugMode \in BOOLEAN
    /\ SpinIdle
    /\ rpc = "start"
    /\ chunkThreshold \in RunThresholds
    /\ gitLog = <<>>
    /\ runErr = ""
    /\ tree = <<>>
    /\ answers = <<>>
    /\ ConcIdle

\* The checks before any prompt: the repository, the provider, the state of
\* the work tree.
RunPreflight(isRepo, providerOK, hasStaged, isDirty) ==
    /\ rpc = "start"
    /\ IF ~isRepo
       THEN Fatalln("ERR_NOT_GIT_REPO")
       ELSE IF ~providerOK
       THEN Fatalln("ERR_FAILED_TO_SETUP_LLM")
       ELSE IF ~hasStaged /\ ~isDirty
       THEN rpc' = "exited" /\ UNCHANGED runErr
       ELSE IF NeedsStaging(hasStaged)
       THEN rpc' = "stagePrompt" /\ UNCHANGED runErr
       ELSE rpc' = "diff" /\ UNCHANGED runErr
    /\ tree' = IF isRepo /\ providerOK THEN <<hasStaged, isDirty>> ELSE tree
    /\ UNCHANGED <<chunkThreshold, gitLog, answers, splitVars, loopVars, spinVars,
                   concVars, docVars, promptVars>>

\* MustPromptYesNoTea("Would you like to add all changes?"), then GitAddAll
\* between SprinnerStart and SprinnerStop, or shared.NothingToDo.
RunStagePrompt(answer, addOK) ==
    /\ rpc = "stagePrompt"
    /\ overlapped' = PromptShown("Would you like to add all changes?",
                                 spinnerProgram, overlapped)
    /\ answers' = Append(answers, <<"Would you like to add all changes?", answer>>)
    /\ IF answer = "yes"
       THEN /\ gitLog' = Append(gitLog, GitCall("add", <<>>, addOK))
            /\ spinnerProgram' =
                  SprinnerStop(SprinnerStart(spinnerProgram, debugMode))
            /\ IF addOK
               THEN rpc' = "diff" /\ UNCHANGED runErr
               ELSE Fatalln("ERR_FAILED_TO_STAGE_FILES")
       ELSE /\ rpc' = "exited"
            /\ UNCHANGED <<gitLog, spinnerProgram, runErr>>
    /\ UNCHANGED <<chunkThreshold, tree, debugMode, splitVars, loopVars, concVars, docVars, promptVars>>

\* GetGitDiff and GetGitStats, each between SprinnerStart and SprinnerStop
\* (an error ends the process with the spinner running), then
\* SprinnerStart("Generating chunks...") before ChunkDiff.
RunGetDiffStats(diffOK, statsOK, diff) ==
    /\ rpc = "diff"
    /\ IF diffOK /\ statsOK
       THEN /\ text' = diff
            /\ spc' = "idle"
            /\ rpc' = "chunking"
            /\ spinnerProgram' = SprinnerStart(
                  SprinnerStop(SprinnerStart(
                      SprinnerStop(SprinnerStart(spinnerProgram, debugMode)),
                      debugMode)),
                  debugMode)
            /\ UNCHANGED runErr
       ELSE /\ Fatalln(IF diffOK THEN "ERR_FAILED_TO_GIT_STATS"
                       ELSE "ERR_FAILED_TO_GIT_DIFF")
            /\ spinnerProgram' =
                  IF diffOK
                  THEN SprinnerStart(SprinnerStop(
                           SprinnerStart(spinnerProgram, debugMode)), debugMode)
                  ELSE SprinnerStart(spinnerProgram, debugMode)
            /\ UNCHANGED <<text, spc>>
    /\ UNCHANGED <<ChunkSize, ChunkOverlap, via, tokenIDs, startIdx, endIdx,
                   chunks, ranges, splitErr, EncodingName, ModelName, tkLoadable, prevSplit,
                   tokenizer, maxCharsIn, cdErr, chunkThreshold, tree, answers, gitLog,
                   debugMode,
                   overlapped, loopVars, concVars, docVars, promptVars>>

\* provider.ChunkDiff(chunkThreshold, diff) returned: an error ends the
\* process, chunks are handed to GenerateCommitMessageLoop after SprinnerStop.
RunLoopStart ==
    /\ rpc = "chunking"
    /\ spc \in {"done", "error"}
    /\ IF spc = "error"
       THEN /\ Fatalln(cdErr)
            /\ UNCHANGED <<loopVars, spinnerProgram>>
       ELSE /\ rpc' = "loop"
            /\ spinnerProgram' = SprinnerStop(spinnerProgram)
            /\ lchunks' = chunks
            /\ lpc' = "start"
            /\ UNCHANGED <<runErr, attempt, idx, additionalInstructions, message,
                           finalMessage, lerr, callLog, decisions, typed, lcause,
                           changes, now>>
    /\ UNCHANGED <<chunkThreshold, tree, answers, gitLog, debugMode, overlapped,
                   splitVars, concVars, docVars, promptVars>>

\* GenerateCommitMessageLoop returned: an error or an empty message ends the
\* process; otherwise GitCommit between SprinnerStart and SprinnerStop, then
\* SprinnerStart("Pushing changes...").
RunAfterLoop(commitOK) ==
    /\ rpc = "loop"
    /\ lpc \in {"done", "failed", "exhausted"}
    /\ IF lerr # ""
       THEN /\ Fatalln(lerr)
            /\ UNCHANGED <<gitLog, spinnerProgram>>
       ELSE IF IsEmptyMessage(finalMessage)
       THEN /\ Fatalln("ERR_EMPTY_COMMIT_MESSAGE")
            /\ UNCHANGED <<gitLog, spinnerProgram>>
       ELSE /\ gitLog' = Append(gitLog, GitCall("commit", finalMessage, commitOK))
            /\ IF commitOK
               THEN /\ rpc' = "pushPrompt"
                    /\ spinnerProgram' = SprinnerStart(
                          SprinnerStop(SprinnerStart(spinnerProgram, debugMode)),
                          debugMode)
                    /\ UNCHANGED runErr
               ELSE /\ Fatalln("git commit failed")
                    /\ spinnerProgram' = SprinnerStart(spinnerProgram, debugMode)
    /\ UNCHANGED <<chunkThreshold, tree, answers, debugMode, overlapped, splitVars,
                   loopVars, concVars, docVars, promptVars>>

\* MustPromptYesNoTea("Would you like to push the commits?") and GitPush, then
\* SprinnerStop and SprinnerStart("Tagging changes..."). An interrupt keystroke
\* in the prompt is shared.NothingToDo.
RunPushPrompt(answer, pushOK) ==
    /\ rpc = "pushPrompt"
    /\ overlapped' = PromptShown("Would you like to push the commits?",
                                 spinnerProgram, overlapped)
    /\ answers' = Append(answers, <<"Would you like to push the commits?", answer>>)
    /\ IF answer = "interrupt"
       THEN /\ rpc' = "exited"
            /\ UNCHANGED <<gitLog, runErr, spinnerProgram>>
       ELSE /\ gitLog' = IF Pushes(answer)
                         THEN Append(gitLog, GitCall("push", <<>>, pushOK))
                         ELSE gitLog
            /\ IF Pushes(answer) /\ ~pushOK
               THEN /\ Fatalln("git push failed")
                    /\ UNCHANGED spinnerProgram
               ELSE /\ rpc' = "tagPrompt"
                    /\ spinnerProgram' =
                          SprinnerStart(SprinnerStop(spinnerProgram), debugMode)
                    /\ UNCHANGED runErr
    /\ UNCHANGED <<chunkThreshold, tree, debugMode, splitVars, loopVars, concVars, docVars, promptVars>>

\* MustPromptYesNoTea("Would you like to tag the commit?"), the tag name
\* prompt, GitTag and GitPushTags, then SprinnerStop and os.Exit(0).
RunTagPrompt(answer, tag, tagOK, pushTagsOK) ==
    /\ rpc = "tagPrompt"
    /\ answers' = Append(answers, <<"Would you like to tag the commit?", answer>>)
    /\ overlapped' =
          IF answer = "yes"
          THEN PromptShown("Enter the tag name:", spinnerProgram,
                   PromptShown("Would you like to tag the commit?",
                               spinnerProgram, overlapped))
          ELSE PromptShown("Would you like to tag the commit?", spinnerProgram,
                           overlapped)
    /\ IF answer = "interrupt"
       THEN /\ rpc' = "exited"
            /\ UNCHANGED <<gitLog, runErr, spinnerProgram>>
       ELSE IF answer = "no"
       THEN /\ rpc' = "finished"
            /\ spinnerProgram' = SprinnerStop(spinnerProgram)
            /\ UNCHANGED <<gitLog, runErr>>
       ELSE IF ~tagOK
       THEN /\ gitLog' = Append(gitLog, GitCall("tag", tag, FALSE))
            /\ Fatalln("git tag failed")
            /\ UNCHANGED spinnerProgram
       ELSE /\ gitLog' = Append(Append(gitLog, GitCall("tag", tag, TRUE)),
                                GitCall("pushTags", <<>>, pushTagsOK))
            /\ IF pushTagsOK
               THEN /\ rpc' = "finished"
                    /\ spinnerProgram' = SprinnerStop(spinnerProgram)
                    /\ UNCHANGED runErr
               ELSE /\ Fatalln("git push --tags failed")
                    /\ UNCHANGED spinnerProgram
    /\ UNCHANGED <<chunkThreshold, tree, debugMode, splitVars, loopVars, concVars, docVars, promptVars>>

Answers == {"yes", "no", "interrupt"}

NextRun ==
    \/ \E isRepo \in BOOLEAN, providerOK \in BOOLEAN, hasStaged \in BOOLEAN,
          isDirty \in BOOLEAN : RunPreflight(isRepo, providerOK, hasStaged, isDirty)
    \/ \E answer \in Answers, addOK \in BOOLEAN : RunStagePrompt(answer, addOK)
    \/ \E diffOK \in BOOLEAN, statsOK \in BOOLEAN, diff \in RunDiffs :
          RunGetDiffStats(diffOK, statsOK, diff)
    \/ (rpc = "chunking" /\ ChunkDiff(chunkThreshold))
    \/ SplitIterate
    \/ SplitReturn
    \/ RunLoopStart
    \/ LoopEnter
    \/ \E ok \in BOOLEAN, response \in Responses : Generate(ok, response)
    \/ Approve
    \/ \E changeChoice \in RunChangeChoices :
          TryAgain(changeChoice,
                   IF changeChoice = "Write what should change"
                   THEN "explain why" ELSE "")
    \/ \E outcome \in {"esc", "error"}, content \in TypedTexts :
          WriteYourself(outcome, content)
    \/ \E how \in {"Exit", "interrupt"} : Exit(how)
    \/ \E commitOK \in BOOLEAN : RunAfterLoop(commitOK)
    \/ \E answer \in Answers, pushOK \in BOOLEAN : RunPushPrompt(answer, pushOK)
    \/ \E answer \in Answers, tag \in TagNames, tagOK \in BOOLEAN,
          pushTagsOK \in BOOLEAN : RunTagPrompt(answer, tag, tagOK, pushTagsOK)

SpecRun == InitRun /\ [][NextRun]_vars

(***************************************************************************)
(* The document command: processFiles, chunkDiff, processChunks, save      *)
(***************************************************************************)
MaxFiles == 2

\* The k-th path of --file-paths and the content of the file it names.
PathName(k) == <<"file", k>>
FileText(path) == [j \in 1..path[2] |-> "b"]

\* What os.Open / io.ReadAll may do with a file.
ReadOutcomes == {"ok", "ERR_FAILED_TO_OPEN_FILE", "ERR_FAILED_TO_READ_FILE"}

\* strings.Join(elems, sep)
RECURSIVE Join(_, _)
Join(elems, sep) ==
    IF elems = <<>> THEN <<>>
    ELSE IF Len(elems) = 1 THEN elems[1]
    ELSE elems[1] \o <<sep>> \o Join(Tail(elems), sep)

\* tea.SpinnerStart, as executed by the main goroutine with the mutex free
\* (the debug-mode check is commented out).
SpinnerStart(sp) == IF sp # 0 THEN sp ELSE 1

\* tea.SpinnerStop
SpinnerStop(sp) == IF sp # 0 THEN 0 ELSE sp

\* Variant: the batch fails only when every read failed.
MapFailed_AllFailed(es, paths) == Len(es) > 0 /\ Len(es) = Len(paths)

\* len(errs) > 0
MapFailed(es, paths) == Len(es) > 0

\* Variant: the chunk number is the index of the range loop.
DocChunkNumber_ZeroBased(i) == i

\* generateDocumentation(ctx, provider, chunk, i+1, totalChunks)
DocChunkNumber(i) == i + 1

\* Variant: the new element is written into the shared slice in one step.
AppendTo_Atomic(shared, local, elem) == Append(shared, elem)

\* contentOfAllFiles = append(contentOfAllFiles, content): the slice read
\* earlier by this goroutine, with the element added, is written back.
AppendTo(shared, local, elem) == Append(local, elem)

InitDoc ==
    /\ PromptIdle
    /\ text = <<>>
    /\ tkLoadable \in BOOLEAN
    /\ SplitFresh
    /\ spc = "none"
    /\ LoopIdle
    /\ debugMode \in BOOLEAN
    /\ SpinIdle
    /\ rpc = "none"
    /\ chunkThreshold \in RunThresholds
    /\ gitLog = <<>>
    /\ runErr = ""
    /\ tree = <<>>
    /\ answers = <<>>
    /\ ConcIdle
    /\ dpc = "start"
    /\ \E n \in 0..MaxFiles : filePaths = [k \in 1..n |-> PathName(k)]
    /\ contentOfAllFiles = <<>>
    /\ wpc = <<>>
    /\ wlocal = <<>>
    /\ errs = <<>>
    /\ docContent = <<>>
    /\ docErr = ""
    /\ docLog = <<>>
    /\ finalDocumentation = <<>>
    /\ saved = <<>>

\* What the actions of the document command never touch.
notDoc == <<loopVars, runVars, concVars, promptVars, debugMode, overlapped>>

\* runDocumentCommand up to the call of concurrentloop.Map in processFiles:
\* initializeLLMProvider, logProcessingTargets, tea.SpinnerStart.
DocStart(providerOK) ==
    /\ dpc = "start"
    /\ IF providerOK
       THEN /\ dpc' = "reading"
            /\ wpc' = [k \in 1..Len(filePaths) |-> "ready"]
            /\ wlocal' = [k \in 1..Len(filePaths) |-> <<>>]
            /\ spinnerProgram' = SpinnerStart(spinnerProgram)
            /\ UNCHANGED docErr
       ELSE /\ dpc' = "failed"
            /\ docErr' = "ERR_FAILED_TO_SETUP_LLM"
            /\ UNCHANGED <<wpc, wlocal, spinnerProgram>>
    /\ UNCHANGED <<filePaths, contentOfAllFiles, errs, docContent, docLog,
                   finalDocumentation, saved, splitVars, notDoc>>

\* The callback of Map for the k-th path: processFile(filePath).
ProcessFile(k, outcome) ==
    /\ dpc = "reading"
    /\ wpc[k] = "ready"
    /\ IF outcome = "ok"
       THEN /\ wpc' = [wpc EXCEPT ![k] = "load"]
            /\ UNCHANGED errs
       ELSE /\ wpc' = [wpc EXCEPT ![k] = "failed"]
            /\ errs' = Append(errs, [path |-> filePaths[k], error |-> outcome])
    /\ UNCHANGED <<dpc, filePaths, contentOfAllFiles, wlocal, docContent, docErr,
                   docLog, finalDocumentation, saved, spinnerProgram, splitVars,
                   notDoc>>

\* The callback reads the slice header of contentOfAllFiles for append.
AppendLoad(k) ==
    /\ dpc = "reading"
    /\ wpc[k] = "load"
    /\ wlocal' = [wlocal EXCEPT ![k] = contentOfAllFiles]
    /\ wpc' = [wpc EXCEPT ![k] = "store"]
    /\ UNCHANGED <<dpc, filePaths, contentOfAllFiles, errs, docContent, docErr,
                   docLog, finalDocumentation, saved, spinnerProgram, splitVars,
                   notDoc>>

\* The callback assigns the result of append to contentOfAllFiles and
\* returns true, nil.
AppendStore(k) ==
    /\ dpc = "reading"
    /\ wpc[k] = "store"
    /\ contentOfAllFiles' =
          AppendTo(contentOfAllFiles, wlocal[k], FileText(filePaths[k]))
    /\ wpc' = [wpc EXCEPT ![k] = "done"]
    /\ UNCHANGED <<dpc, filePaths, wlocal, errs, docContent, docErr, docLog,
                   finalDocumentation, saved, spinnerProgram, splitVars, notDoc>>

\* Map returned: processFiles returns nil and the errors, or the slice and
\* nil (after the deferred SpinnerStop); on success
\* generateContentDocumentation starts the spinner and joins the content.
ProcessFilesReturn ==
    /\ dpc = "reading"
    /\ \A k \in 1..Len(filePaths) : wpc[k] \in {"done", "failed"}
    /\ IF MapFailed(errs, filePaths)
       THEN /\ docContent' = <<>>
            /\ docErr' = errs[1].error
            /\ dpc' = "failed"
            /\ spinnerProgram' = SpinnerStop(spinnerProgram)
            /\ UNCHANGED <<text, spc>>
       ELSE /\ docContent' = contentOfAllFiles
            /\ text' = Join(contentOfAllFiles, NL)
            /\ spc' = "idle"
            /\ dpc' = "chunking"
            /\ spinnerProgram' = SpinnerStart(SpinnerStop(spinnerProgram))
            /\ UNCHANGED docErr
    /\ UNCHANGED <<ChunkSize, ChunkOverlap, via, tokenIDs, startIdx, endIdx,
                   chunks, ranges, splitErr, EncodingName, ModelName, tkLoadable, prevSplit,
                   tokenizer, maxCharsIn, cdErr, filePaths, contentOfAllFiles,
                   wpc, wlocal, errs, docLog, finalDocumentation, saved, notDoc>>

\* chunkDiff returned: an error is returned after SpinnerStop, otherwise
\* processChunks is entered and starts its spinner.
DocChunked ==
    /\ dpc = "chunking"
    /\ spc \in {"done", "error"}
    /\ IF spc = "error"
       THEN /\ dpc' = "failed"
            /\ docErr' = cdErr
            /\ spinnerProgram' = SpinnerStop(spinnerProgram)
            /\ UNCHANGED lchunks
       ELSE /\ dpc' = "generating"
            /\ lchunks' = chunks
            /\ spinnerProgram' = SpinnerStart(SpinnerStop(spinnerProgram))
            /\ UNCHANGED docErr
    /\ UNCHANGED <<lpc, attempt, idx, additionalInstructions, message,
                   finalMessage, lerr, callLog, decisions, typed, lcause, changes,
                   now, filePaths, contentOfAllFiles, wpc, wlocal, errs,
                   docContent, docLog, finalDocumentation, saved, splitVars,
                   runVars, concVars, promptVars, debugMode, overlapped>>

\* One iteration of the range loop of processChunks: generateDocumentation
\* for chunk i with the number i+1; an error returns nil and the error.
GenerateDocumentation(ok, response) ==
    /\ dpc = "generating"
    /\ Len(finalDocumentation) < Len(lchunks)
    /\ LET i == Len(finalDocumentation)
       IN  docLog' = Append(docLog, [chunkNumber |-> DocChunkNumber(i),
                                     totalChunks |-> Len(lchunks),
                                     chunk |-> lchunks[i + 1],
                                     ok |-> ok])
    /\ IF ok
       THEN /\ finalDocumentation' = Append(finalDocumentation, response)
            /\ UNCHANGED <<dpc, docErr, spinnerProgram>>
       ELSE /\ finalDocumentation' = <<>>
            /\ dpc' = "failed"
            /\ docErr' = "provider error"
            /\ spinnerProgram' = SpinnerStop(spinnerProgram)
    /\ UNCHANGED <<filePaths, contentOfAllFiles, wpc, wlocal, errs, docContent,
                   saved, splitVars, notDoc>>

\* processChunks returns finalDocumentation; saveDocumentation writes the
\* joined text to documentation.md between SpinnerStart and SpinnerStop.
SaveDocumentation(ok) ==
    /\ dpc = "generating"
    /\ Len(finalDocumentation) = Len(lchunks)
    /\ IF ok
       THEN /\ saved' = <<Join(finalDocumentation, NL)>>
            /\ dpc' = "done"
            /\ UNCHANGED docErr
       ELSE /\ dpc' = "failed"
            /\ docErr' = "ERR_FAILED_TO_SAVE_DOCUMENTATION"
            /\ UNCHANGED saved
    /\ spinnerProgram' = SpinnerStop(SpinnerStart(SpinnerStop(spinnerProgram)))
    /\ UNCHANGED <<filePaths, contentOfAllFiles, wpc, wlocal, errs, docContent,
                   docLog, finalDocumentation, splitVars, notDoc>>

NextDoc ==
    \/ \E providerOK \in BOOLEAN : DocStart(providerOK)
    \/ \E k \in 1..Len(filePaths), outcome \in ReadOutcomes : ProcessFile(k, outcome)
    \/ \E k \in 1..Len(filePaths) : AppendLoad(k)
    \/ \E k \in 1..Len(filePaths) : AppendStore(k)
    \/ ProcessFilesReturn
    \/ (dpc = "chunking" /\ ChunkDiff(chunkThreshold))
    \/ SplitIterate
    \/ SplitReturn
    \/ DocChunked
    \/ \E ok \in BOOLEAN, response \in Responses : GenerateDocumentation(ok, response)
    \/ \E ok \in BOOLEAN : SaveDocumentation(ok)

SpecDoc == InitDoc /\ [][NextDoc]_vars

(***************************************************************************)
(* The two chunk loops side by side: GenerateCommitMessageLoop and         *)
(* processChunks, each applied to a list of chunks                         *)
(***************************************************************************)
\* processChunks(providerInUse, chunks, len(chunks)) is entered: the slice is
\* empty and the spinner was started.
InitProcessChunks ==
    /\ PromptIdle
    /\ text = <<>>
    /\ tkLoadable = TRUE
    /\ SplitIdle
    /\ debugMode \in BOOLEAN
    /\ spinnerProgram = SpinnerStart(0)
    /\ overlapped = {}
    /\ RunIdle
    /\ ConcIdle
    /\ \E n \in 1..MaxTotalChunks : lchunks = [k \in 1..n |-> ChunkText(k)]
    /\ lpc = "idle"
    /\ attempt = 0
    /\ idx = 0
    /\ additionalInstructions = ""
    /\ message = <<>>
    /\ finalMessage = <<>>
    /\ lerr = ""
    /\ callLog = <<>>
    /\ decisions = <<>>
    /\ typed = <<>>
    /\ lcause = ""
    /\ changes = <<>>
    /\ now = 0
    /\ dpc = "generating"
    /\ filePaths = <<>>
    /\ contentOfAllFiles = <<>>
    /\ wpc = <<>>
    /\ wlocal = <<>>
    /\ errs = <<>>
    /\ docContent = <<>>
    /\ docErr = ""
    /\ docLog = <<>>
    /\ finalDocumentation = <<>>
    /\ saved = <<>>

InitOrder == InitLoop \/ InitProcessChunks

NextOrder ==
    \/ LoopEnter
    \/ \E ok \in BOOLEAN, response \in Responses : Generate(ok, response)
    \/ Approve
    \/ TryAgain("Make more succinct", "")
    \/ \E outcome \in {"esc", "error"} : WriteYourself(outcome, <<>>)
    \/ Exit("Exit")
    \/ \E ok \in BOOLEAN, response \in Responses : GenerateDocumentation(ok, response)
    \/ \E ok \in BOOLEAN : SaveDocumentation(ok)

SpecOrder == InitOrder /\ [][NextOrder]_vars

(***************************************************************************)
(* The choice prompt and the yes/no prompt (ChoiceModel)                   *)
(***************************************************************************)
MaxKeys == 3

\* The choice lists of the call sites of MustPromptWithChoices.
MainChoices == <<"Approve commit message", "Try again",
                 "Write commit message yourself", "Exit">>
SecondaryChoices == <<"Make more succinct", "Make more technical",
                      "Make less technical", "Write what should change">>
ChoiceLists == {MainChoices, SecondaryChoices}

\* The messages Update may receive: key presses (by msg.String()) and one
\* message that is not a key press.
InterruptKeys == {"ctrl+c", "esc", "q"}
KeyMsgs == InterruptKeys \cup {"enter", "down", "j", "up", "k", "x"}
Msgs == KeyMsgs \cup {"WindowSizeMsg"}

\* Variant: the cursor of the yes/no prompt always starts on the first choice.
DefaultIndex_First(d) == 0

\* defaultIndex := 1; if defaultChoice { defaultIndex = 0 }
DefaultIndex(d) == IF d THEN 0 ELSE 1

\* Variant: Enter quits the program without recording the choice.
Selected_None(cs, cur) == ""

\* m.choice = m.choices[m.cursor]
Selected(cs, cur) == cs[cur + 1]

\* Variant: "down" stops at the last choice instead of wrapping to the first.
CursorDown_Clamped(cs, cur) == IF cur + 1 >= Len(cs) THEN cur ELSE cur + 1

\* case "down", "j"
CursorDown(cs, cur) == IF cur + 1 >= Len(cs) THEN 0 ELSE cur + 1

\* case "up", "k"
CursorUp(cs, cur) == IF cur - 1 < 0 THEN Len(cs) - 1 ELSE cur - 1

InitPrompt ==
    /\ DocIdle
    /\ PromptIdle
    /\ text = <<>>
    /\ tkLoadable = TRUE
    /\ SplitIdle
    /\ LoopIdle
    /\ debugMode \in BOOLEAN
    /\ SpinIdle
    /\ RunIdle
    /\ ConcIdle

notPrompt == <<splitVars, loopVars, spinVars, runVars, concVars, docVars>>

\* MustPromptWithChoices(question, cs) up to p.Run().
MustPromptWithChoices(cs) ==
    /\ ppc = "none"
    /\ ppc' = "open"
    /\ choices' = cs
    /\ cursor' = 0
    /\ choice' = ""
    /\ defaultChoice' = <<>>
    /\ UNCHANGED <<keys, result, notPrompt>>

\* MustPromptYesNoTea(question, d) up to p.Run().
MustPromptYesNoTea(d) ==
    /\ ppc = "none"
    /\ ppc' = "open"
    /\ choices' = <<"Yes", "No">>
    /\ cursor' = DefaultIndex(d)
    /\ choice' = ""
    /\ defaultChoice' = <<d>>
    /\ UNCHANGED <<keys, result, notPrompt>>

\* ChoiceModel.Update(msg)
Update(msg) ==
    /\ ppc = "open"
    /\ Len(keys) < MaxKeys
    /\ keys' = Append(keys, msg)
    /\ IF msg \in InterruptKeys
       THEN /\ ppc' = "exited"
            /\ UNCHANGED <<cursor, choice>>
       ELSE IF msg = "enter"
       THEN /\ choice' = Selected(choices, cursor)
            /\ ppc' = "quit"
            /\ UNCHANGED cursor
       ELSE IF msg \in {"down", "j"}
       THEN /\ cursor' = CursorDown(choices, cursor)
            /\ UNCHANGED <<ppc, choice>>
       ELSE IF msg \in {"up", "k"}
       THEN /\ cursor' = CursorUp(choices, cursor)
            /\ UNCHANGED <<ppc, choice>>
       ELSE UNCHANGED <<ppc, cursor, choice>>
    /\ UNCHANGED <<defaultChoice, choices, result, notPrompt>>

\* p.Run() returned the model after tea.Quit: the choice when it is not
\* empty, else "" (false for the yes/no prompt).
PromptReturn ==
    /\ ppc = "quit"
    /\ ppc' = "returned"
    /\ result' = IF defaultChoice = <<>>
                 THEN <<(IF choice # "" THEN choice ELSE "")>>
                 ELSE <<(IF choice # "" THEN choice = "Yes" ELSE FALSE)>>
    /\ UNCHANGED <<defaultChoice, choices, cursor, choice, keys, notPrompt>>

\* p.Run() returned an error: panic(ERR_FAILED_TO_INIT_TEA).
RunFails ==
    /\ ppc = "open"
    /\ ppc' = "panic"
    /\ UNCHANGED <<defaultChoice, choices, cursor, choice, keys, result,
                   notPrompt>>

NextPrompt ==
    \/ \E cs \in ChoiceLists : MustPromptWithChoices(cs)
    \/ \E d \in BOOLEAN : MustPromptYesNoTea(d)
    \/ \E msg \in Msgs : Update(msg)
    \/ PromptReturn
    \/ RunFails

SpecPrompt == InitPrompt /\ [][NextPrompt]_vars

(***************************************************************************)
(* SprinnerStart / SprinnerStop called from concurrent goroutines           *)
(***************************************************************************)
Callers == 1..NumCallers

\* Caller t moves to position pc.
Goto(t, pc) == cpc' = [cpc EXCEPT ![t] = pc]

\* Variant: Lock returns without waiting for the holder.
MutexLock_NoExclusion(t) == spinnerMutex' = t

\* spinnerMutex.Lock()
MutexLock(t) ==
    /\ spinnerMutex = 0
    /\ spinnerMutex' = t

InitSpinner ==
    /\ DocIdle
    /\ PromptIdle
    /\ text = <<>>
    /\ tkLoadable = TRUE
    /\ SplitFresh
    /\ spc = "none"
    /\ LoopIdle
    /\ debugMode \in BOOLEAN
    /\ SpinIdle
    /\ RunIdle
    /\ spinnerMutex = 0
    /\ cpc = [t \in Callers |-> "idle"]
    /\ live = {}
    /\ created = 0
    /\ calls = 0
    /\ goroutines = <<>>

\* Caller t calls SprinnerStart: outside debug mode it returns at once.
CallStart(t) ==
    /\ cpc[t] = "idle"
    /\ calls < MaxCalls
    /\ calls' = calls + 1
    /\ Goto(t, IF debugMode THEN "startLock" ELSE "idle")
    /\ UNCHANGED <<spinnerMutex, live, created, spinVars, goroutines, splitVars, loopVars,
                   runVars, docVars, promptVars>>

\* Caller t calls SprinnerStop.
CallStop(t) ==
    /\ cpc[t] = "idle"
    /\ calls < MaxCalls
    /\ calls' = calls + 1
    /\ Goto(t, "stopLock")
    /\ UNCHANGED <<spinnerMutex, live, created, spinVars, goroutines, splitVars, loopVars,
                   runVars, docVars, promptVars>>

\* spinnerMutex.Lock() of SprinnerStart or SprinnerStop.
Lock(t) ==
    /\ cpc[t] \in {"startLock", "stopLock"}
    /\ MutexLock(t)
    /\ Goto(t, IF cpc[t] = "startLock" THEN "startCheck" ELSE "stopCheck")
    /\ UNCHANGED <<live, created, calls, spinVars, goroutines, splitVars, loopVars, runVars, docVars, promptVars>>

\* SprinnerStart: if spinnerProgram != nil { return }
StartCheck(t) ==
    /\ cpc[t] = "startCheck"
    /\ Goto(t, IF spinnerProgram # 0 THEN "unlock" ELSE "startCreate")
    /\ UNCHANGED <<spinnerMutex, live, created, calls, spinVars, goroutines, splitVars,
                   loopVars, runVars, docVars, promptVars>>

\* SprinnerStart: spinnerProgram = tea.NewProgram(model)
StartCreate(t) ==
    /\ cpc[t] = "startCreate"
    /\ created' = created + 1
    /\ spinnerProgram' = created + 1
    /\ live' = live \cup {created + 1}
    /\ goroutines' = Append(goroutines, [state |-> "ready", ran |-> 0])
    /\ Goto(t, "unlock")
    /\ UNCHANGED <<spinnerMutex, calls, debugMode, overlapped, splitVars,
                   loopVars, runVars, docVars, promptVars>>

\* SprinnerStop: if spinnerProgram != nil
StopCheck(t) ==
    /\ cpc[t] = "stopCheck"
    /\ Goto(t, IF spinnerProgram # 0 THEN "stopQuit" ELSE "unlock")
    /\ UNCHANGED <<spinnerMutex, live, created, calls, spinVars, goroutines, splitVars,
                   loopVars, runVars, docVars, promptVars>>

\* SprinnerStop: spinnerProgram.Quit(); spinnerProgram = nil. Quit on a nil
\* program is a nil pointer dereference.
StopQuit(t) ==
    /\ cpc[t] = "stopQuit"
    /\ IF spinnerProgram # 0
       THEN /\ live' = live \ {spinnerProgram}
            /\ spinnerProgram' = 0
            /\ Goto(t, "unlock")
       ELSE /\ Goto(t, "panic")
            /\ UNCHANGED <<live, spinnerProgram>>
    /\ UNCHANGED <<spinnerMutex, created, calls, debugMode, overlapped, goroutines, splitVars,
                   loopVars, runVars, docVars, promptVars>>

\* The deferred spinnerMutex.Unlock() and the return.
Unlock(t) ==
    /\ cpc[t] = "unlock"
    /\ spinnerMutex' = 0
    /\ Goto(t, "idle")
    /\ UNCHANGED <<live, created, calls, spinVars, goroutines, splitVars, loopVars, runVars, docVars, promptVars>>

\* The goroutine launched by the g-th creating call is scheduled: it reads the
\* global spinnerProgram, without the mutex, and calls Run on it; on a nil
\* pointer that is a nil dereference.
GoroutineRun(g) ==
    /\ goroutines[g].state = "ready"
    /\ goroutines' = [goroutines EXCEPT ![g] =
                         IF spinnerProgram = 0
                         THEN [state |-> "nil dereference", ran |-> 0]
                         ELSE [state |-> "running", ran |-> spinnerProgram]]
    /\ UNCHANGED <<spinnerMutex, cpc, live, created, calls, spinVars, splitVars,
                   loopVars, runVars, docVars, promptVars>>

NextSpinner ==
    \/ \E t \in Callers : CallStart(t)
    \/ \E t \in Callers : CallStop(t)
    \/ \E t \in Callers : Lock(t)
    \/ \E t \in Callers : StartCheck(t)
    \/ \E t \in Callers : StartCreate(t)
    \/ \E t \in Callers : StopCheck(t)
    \/ \E t \in Callers : StopQuit(t)
    \/ \E t \in Callers : Unlock(t)
    \/ \E g \in 1..Len(goroutines) : GoroutineRun(g)

SpecSpinner == InitSpinner /\ [][NextSpinner]_vars

FairSpecSplit == SpecSplit /\ WF_vars(SplitIterate) /\ WF_vars(SplitReturn)

(***************************************************************************)
(* Properties of the splitter.                                             *)
(***************************************************************************)
\* ChunkConfig invariant of the data model: 0 <= chunkOverlap < chunkSize.
ValidConfig == 0 <= ChunkOverlap /\ ChunkOverlap < ChunkSize

\* SplitText has returned its chunks under a valid configuration.
SplitDone == spc = "done" /\ via = "split" /\ ValidConfig

\* The token indices lo, lo+1, ..., hi-1.
IndexSeq(lo, hi) == IF hi > lo THEN [i \in 1..(hi - lo) |-> lo + i - 1] ELSE <<>>

\* Chunk k's range without its first ChunkOverlap indices (k > 1), whole for k = 1.
KeptRange(k) ==
    IF k = 1 THEN IndexSeq(ranges[k][1], ranges[k][2])
    ELSE IndexSeq(ranges[k][1] + ChunkOverlap, ranges[k][2])

MergedRanges == Flatten([k \in 1..Len(ranges) |-> KeptRange(k)])

\* C1: a configuration with chunkOverlap >= chunkSize (or chunkSize <= 0) is
\* rejected with InvalidConfiguration at construction time, before any chunking
\* begins: the splitter never enters its loop, panics or returns chunks with it.
C1_InvalidConfigurationRejected ==
    (via = "split" /\ ~ValidConfig) =>
        (splitErr = "InvalidConfiguration" /\ spc \notin {"loop", "panic", "done"})

\* C4: under a valid configuration, an input of at most ChunkSize tokens gives
\* exactly one chunk, equal to the whole decoded text.
C4_AtMostChunkSizeOneChunk ==
    (SplitDone /\ Len(tokenIDs) <= ChunkSize) => chunks = <<Decode(tokenIDs)>>

\* C5: under a valid configuration SplitText returns at least one chunk; the
\* empty text gives exactly one chunk, which is empty.
C5_AtLeastOneChunk ==
    SplitDone => (Len(chunks) >= 1 /\ (text = <<>> => chunks = <<(<<>>)>>))

\* C6: under a valid configuration the chunking loop terminates: every
\* iteration strictly increases the start index, the loop runs at most once per
\* token, never panics, and ends with the start index at or past the token count.
C6_LoopTerminates ==
    /\ [][(spc = "loop" /\ ValidConfig /\ ranges' # ranges)
            => (startIdx < Len(tokenIDs) /\ startIdx' > startIdx)]_vars
    /\ []((via = "split" /\ ValidConfig)
            => /\ spc # "panic"
               /\ Len(chunks) <= Len(tokenIDs)
               /\ (spc = "done" => startIdx >= Len(tokenIDs)))
    /\ ((spc = "loop" /\ ValidConfig) ~> (spc = "done"))

C6_Witness == SplitDone /\ Len(chunks) >= 3

\* C7: coverage: the chunks' token ranges, merged by discarding the first
\* ChunkOverlap indices of every chunk after the first, list every token index
\* of the input exactly once and in order.
C7_Coverage == SplitDone => MergedRanges = IndexSeq(0, Len(tokenIDs))

C7_Witness == SplitDone /\ Len(chunks) >= 3 /\ ChunkOverlap >= 1

\* C8: chunks are in left-to-right order, every two consecutive chunks' token
\* ranges overlap by exactly ChunkOverlap tokens, and only the final chunk may
\* be shorter than ChunkSize.
C8_ExactOverlapOnlyLastClipped ==
    SplitDone =>
        \A k \in 1..(Len(ranges) - 1) :
            /\ ranges[k][1] < ranges[k + 1][1]
            /\ ranges[k][2] - ranges[k + 1][1] = ChunkOverlap
            /\ ranges[k][2] - ranges[k][1] = ChunkSize

\* ceil(n / d) for n >= 0, d > 0.
CeilDiv(n, d) == (n + d - 1) \div d

\* C26: chunk k (0-based) starts at token index k * (ChunkSize - ChunkOverlap)
\* and N > 0 tokens give ceil(N / (ChunkSize - ChunkOverlap)) chunks; with
\* size 4096, overlap 100 and 10000 tokens the chunks advance by 3996 tokens,
\* there are 3 of them and the last one is shorter than 4096 tokens.
C26_ChunkStartsAndCount ==
    /\ (SplitDone /\ tokenIDs # <<>>) =>
          /\ \A k \in 1..Len(ranges) :
                ranges[k][1] = (k - 1) * (ChunkSize - ChunkOverlap)
          /\ Len(ranges) = CeilDiv(Len(tokenIDs), ChunkSize - ChunkOverlap)
          /\ Len(chunks) = Len(ranges)
          /\ ranges = SplitRanges(ChunkSize, ChunkOverlap, Len(tokenIDs))
    /\ SplitRanges(DefaultTokenChunkSize, DefaultTokenChunkOverlap, 10000) =
          <<<<0, 4096>>, <<3996, 8092>>, <<7992, 10000>>>>

C26_Witness ==
    /\ SplitDone
    /\ ChunkSize = 3
    /\ ChunkOverlap = 1
    /\ Len(tokenIDs) = 4
    /\ ranges = <<<<0, 3>>, <<2, 4>>>>

\* C31: under a valid configuration every chunk SplitText produces is the
\* decoded text of a contiguous, non-empty range of token indices of the
\* encoded text, and holds at most ChunkSize tokens.
C31_ChunksAreBoundedRanges ==
    (via = "split" /\ ValidConfig /\ spc \in {"loop", "done"}) =>
        /\ Len(ranges) = Len(chunks)
        /\ \A k \in 1..Len(chunks) :
              /\ 0 <= ranges[k][1]
              /\ ranges[k][1] < ranges[k][2]
              /\ ranges[k][2] <= Len(tokenIDs)
              /\ ranges[k][2] - ranges[k][1] <= ChunkSize
              /\ chunks[k] = Decode(Slice(tokenIDs, ranges[k][1], ranges[k][2]))

C31_Witness ==
    /\ SplitDone
    /\ Len(chunks) >= 2
    /\ ranges[1][2] - ranges[1][1] = ChunkSize
    /\ ranges[Len(ranges)][2] - ranges[Len(ranges)][1] < ChunkSize
    /\ Len(tokenIDs) < Len(text)

\* C36: under a valid configuration every chunk after the first holds a token
\* its predecessor does not hold: its token range ends after the range of the
\* preceding chunk, so it is no subset of it.
C36_EveryChunkAddsAToken ==
    SplitDone =>
        \A k \in 2..Len(ranges) :
            /\ ranges[k][2] > ranges[k - 1][2]
            /\ ~(/\ ranges[k - 1][1] <= ranges[k][1]
                  /\ ranges[k][2] <= ranges[k - 1][2])

\* C37: when ChunkDiff splits (len(diff) > maxChars > 0) every chunk it
\* returns is at most maxChars characters long.
C37_ChunksWithinThreshold ==
    (/\ spc = "done"
     /\ via = "split"
     /\ maxCharsIn # <<>>
     /\ maxCharsIn[1] > 0
     /\ Len(text) > maxCharsIn[1]) =>
        \A k \in 1..Len(chunks) : Len(chunks[k]) <= maxCharsIn[1]

LoopTerminal == lpc \in {"done", "failed", "exhausted", "exited"}

AllTryAgain == \A j \in 1..Len(decisions) : decisions[j] = "Try again"

AllCallsOK == \A j \in 1..Len(callLog) : callLog[j].ok

\* Chunk k was sent to the LLM in attempt a.
Sent(a, k) == \E j \in 1..Len(callLog) :
                  callLog[j].attempt = a /\ callLog[j].chunkNumber = k

\* C2: for N > 1 chunks, every chunk 1..N has been sent to the LLM in some pass
\* before the loop reports success.
C2_EveryChunkSentBeforeSuccess ==
    (lpc = "done" /\ Len(lchunks) > 1) =>
        \A k \in 1..Len(lchunks) : \E a \in 0..(maxAttempts - 1) : Sent(a, k)

C9_ApproveFirstReturnsRawResponse ==
    (lpc = "done" /\ decisions = <<"Approve commit message">>) =>
        /\ Len(callLog) = 1
        /\ callLog[1].ok
        /\ finalMessage = callLog[1].response
        /\ lerr = ""

C9_Witness ==
    /\ lpc = "done"
    /\ decisions = <<"Approve commit message">>
    /\ finalMessage = <<"f", "i", "x">>

\* C10: "Write commit message yourself" at any decision point, with the text
\* area returning T, returns T followed by a single newline and no error,
\* whatever the model generated before.
C10_WriteYourselfAppendsNewline ==
    (lpc = "done" /\ Len(decisions) > 0
        /\ decisions[Len(decisions)] = "Write commit message yourself") =>
        /\ Len(finalMessage) = Len(typed) + 1
        /\ SubSeq(finalMessage, 1, Len(typed)) = typed
        /\ finalMessage[Len(finalMessage)] = NL
        /\ lerr = ""

C10_Witness ==
    /\ lpc = "done"
    /\ Len(decisions) >= 2
    /\ decisions[Len(decisions)] = "Write commit message yourself"
    /\ typed = <<"h", "e", "l", "l", "o">>
    /\ finalMessage = <<"h", "e", "l", "l", "o", NL>>
    /\ message = <<"f", "i", "x">>

(***************************************************************************)
(* ChunkDiff fast path and tokenizer failure (SpecSplit)                   *)
(***************************************************************************)
\* ChunkDiff was called with a threshold the diff does not exceed.
WithinThreshold == maxCharsIn # <<>> /\ Len(text) <= maxCharsIn[1]

\* C19: when ChunkDiff is called with len(diff) <= maxChars the splitter is
\* never invoked (no tokenizer, no tokens, no slices) and the result is exactly
\* one chunk equal to the diff, with no error.
C19_FastPathSingleChunk ==
    WithinThreshold =>
        /\ via = "fast"
        /\ spc = "done"
        /\ chunks = <<text>>
        /\ tokenizer = ""
        /\ tokenIDs = <<>>
        /\ ranges = <<>>
        /\ splitErr = ""
        /\ cdErr = ""

C19_Witness ==
    /\ WithinThreshold
    /\ Len(text) = maxCharsIn[1]
    /\ Len(text) >= 2
    /\ chunks = <<text>>
    /\ ~tkLoadable

\* The encoding the splitter's fields name cannot be obtained.
TokenizerUnavailable ==
    IF EncodingName # ""
    THEN ~(EncodingName \in KnownEncodings /\ tkLoadable)
    ELSE ~(ModelName \in DOMAIN ModelEncoding /\ tkLoadable)

\* C20: when the tokenizer cannot be initialised SplitText returns
\* ERR_FAILED_TO_INIT_CHUNKER and nil chunks, and ChunkDiff returns
\* ERR_FAILED_TO_CHUNK_DIFF and no chunks; a tokenizer that is in use is the one
\* the fields name, never another encoding.
C20_TokenizerFailureNoChunks ==
    /\ (via = "split" /\ TokenizerUnavailable) =>
          /\ spc = "error"
          /\ tokenizer = ""
          /\ chunks = <<>>
          /\ splitErr = "ERR_FAILED_TO_INIT_CHUNKER"
          /\ (maxCharsIn # <<>>) => (cdErr = "ERR_FAILED_TO_CHUNK_DIFF")
    /\ (tokenizer # "") =>
          tokenizer = (IF EncodingName # "" THEN EncodingName
                       ELSE ModelEncoding[ModelName])

C20_Witness ==
    /\ via = "split"
    /\ maxCharsIn # <<>>
    /\ ~tkLoadable
    /\ text # <<>>
    /\ spc = "error"
    /\ cdErr = "ERR_FAILED_TO_CHUNK_DIFF"
    /\ chunks = <<>>

(***************************************************************************)
(* Decisions of the loop (SpecLoop)                                        *)
(***************************************************************************)
LastDecision == IF decisions = <<>> THEN "" ELSE decisions[Len(decisions)]

\* C11: on "Write commit message yourself" only a non-empty text becomes the
\* final message: when the text area returns the empty text the loop does not
\* return a successful non-empty final message.
C11_EmptyTextIsNotAMessage ==
    (lpc = "done" /\ LastDecision = "Write commit message yourself"
        /\ typed = <<>>) =>
        ~(lerr = "" /\ finalMessage # <<>>)

\* Some LLM call of the log failed.
SomeCallFailed == \E j \in 1..Len(callLog) : ~callLog[j].ok

\* C13: once an LLM call fails (or times out) the loop is in its terminal
\* failed state: it returns the underlying error wrapped, with an empty
\* message; the failed call is the last call and no decision prompt follows it.
C13_LLMFailureIsTerminal ==
    SomeCallFailed =>
        /\ lpc = "failed"
        /\ finalMessage = <<>>
        /\ lerr = "failed to generate commit message"
        /\ lcause \in LLMErrors
        /\ lcause = callLog[Len(callLog)].error
        /\ \A j \in 1..(Len(callLog) - 1) : callLog[j].ok
        /\ Len(decisions) = Len(callLog) - 1

C13_Witness ==
    /\ lpc = "failed"
    /\ Len(callLog) >= 2
    /\ ~callLog[Len(callLog)].ok
    /\ lcause = "context deadline exceeded"
    /\ message = <<"f", "i", "x">>
    /\ finalMessage = <<>>

\* The instructions a secondary choice <<changeChoice, free>> stands for.
ChosenInstructions(c) ==
    CASE c[1] = "Make more succinct" -> InstrSuccinct
      [] c[1] = "Make more technical" -> InstrMoreTechnical
      [] c[1] = "Make less technical" -> InstrLessTechnical
      [] OTHER -> c[2]

\* C16: after "Try again" the next LLM call is for chunk 1 of the next
\* attempt, its prompt carries the instructions chosen in that step and the
\* attempt counter is one higher; there are at most 5 passes.
C16_TryAgainRestartsAtFirstChunk ==
    /\ \A j \in 1..Len(decisions) :
          (decisions[j] = "Try again" /\ j < Len(callLog)) =>
              /\ callLog[j + 1].chunkNumber = 1
              /\ callLog[j + 1].attempt = callLog[j].attempt + 1
              /\ callLog[j + 1].instructions = ChosenInstructions(changes[j])
    /\ \A j \in 1..Len(callLog) : callLog[j].attempt < maxAttempts
    /\ Len(callLog) <= maxAttempts

C16_Witness ==
    /\ Len(lchunks) >= 2
    /\ Len(callLog) = maxAttempts
    /\ AllTryAgain
    /\ callLog[2].instructions = "explain why"
    /\ callLog[maxAttempts].chunkNumber = 1
    /\ callLog[maxAttempts].attempt = maxAttempts - 1

\* C17: the additional instructions are empty for the first generation; each
\* "Try again" overwrites them with the fixed string of the secondary choice or
\* with the free text as typed, and no other step changes them.
C17_InstructionsOverwritten ==
    /\ [](callLog # <<>> => callLog[1].instructions = "")
    /\ [][additionalInstructions' # additionalInstructions =>
            /\ decisions' = Append(decisions, "Try again")
            /\ Len(changes') = Len(changes) + 1
            /\ additionalInstructions' =
                  ChosenInstructions(changes'[Len(changes')])]_vars
    /\ [][decisions' = Append(decisions, "Try again") =>
            additionalInstructions' =
                  ChosenInstructions(changes'[Len(changes')])]_vars

C17_Witness ==
    /\ Len(callLog) >= 3
    /\ callLog[1].instructions = ""
    /\ callLog[2].instructions = "explain why"
    /\ callLog[3].instructions = InstrSuccinct
    /\ additionalInstructions = InstrSuccinct

\* C33: in every run of the loop, whatever the number of chunks and the
\* answers, the attempt counter stays within 0..5, at most 5 LLM calls are
\* made and at most 5 "What would you like to do?" prompts are answered.
C33_AttemptsCallsPromptsBounded ==
    /\ maxAttempts = 5
    /\ attempt \in 0..maxAttempts
    /\ Len(callLog) <= maxAttempts
    /\ Len(decisions) <= maxAttempts
    /\ Len(decisions) <= Len(callLog)

C33_Witness ==
    /\ Len(lchunks) = MaxTotalChunks
    /\ lpc = "exhausted"
    /\ attempt = maxAttempts
    /\ Len(callLog) = maxAttempts
    /\ Len(decisions) = maxAttempts

\* C35: whenever the loop returns, with a message or with an error, the
\* spinner it started is no longer running.
C35_SpinnerStoppedOnReturn ==
    (lpc \in {"done", "failed", "exhausted"}) => (spinnerProgram = 0)

(***************************************************************************)
(* The root command (SpecRun)                                              *)
(***************************************************************************)
\* The git operations of the log with the given names.
Invoked(ops) == {j \in 1..Len(gitLog) : gitLog[j].op \in ops}

\* C12: Commit is never invoked with an empty final message: when the loop
\* returns the empty message without error the command fails with
\* ERR_EMPTY_COMMIT_MESSAGE and no commit is made.
C12_NoCommitWithEmptyMessage ==
    /\ \A j \in Invoked({"commit"}) : gitLog[j].arg # <<>>
    /\ (rpc # "loop" /\ lpc = "done" /\ lerr = "" /\ finalMessage = <<>>) =>
          /\ rpc = "fatal"
          /\ runErr = "ERR_EMPTY_COMMIT_MESSAGE"
          /\ Invoked({"commit"}) = {}

C12_Witness ==
    /\ rpc = "fatal"
    /\ runErr = "ERR_EMPTY_COMMIT_MESSAGE"
    /\ lpc = "done"
    /\ LastDecision = "Approve commit message"
    /\ Len(callLog) >= 2
    /\ finalMessage = <<>>

\* C14: the spinner and the prompts are mutually exclusive: no blocking prompt
\* is opened while a spinner is running.
C14_SpinnerStoppedBeforePrompt == overlapped = {}

\* C18: "Exit" terminates the whole process: the loop returns no value, the
\* command does not go on, and no LLM call, Commit, Push, Tag or PushTags (no
\* step at all) follows it.
C18_ExitTerminatesProcess ==
    /\ [](LastDecision = "Exit" =>
            /\ lpc = "exited"
            /\ rpc = "loop"
            /\ finalMessage = <<>>
            /\ lerr = ""
            /\ Invoked({"commit", "push", "tag", "pushTags"}) = {})
    /\ [][LastDecision # "Exit"]_vars

C18_Witness ==
    /\ LastDecision = "Exit"
    /\ lpc = "exited"
    /\ rpc = "loop"
    /\ Len(callLog) >= 2
    /\ Invoked({"add"}) # {}

\* The yes/no question q was asked and answered a.
Answered(q, a) == \E j \in 1..Len(answers) : answers[j] = <<q, a>>

\* The yes/no question q was asked.
Asked(q) == \E j \in 1..Len(answers) : answers[j][1] = q

\* Operation op succeeded somewhere before position j of the git log.
SucceededBefore(op, j) ==
    \E i \in 1..(j - 1) : gitLog[i].op = op /\ gitLog[i].ok

\* C27: the order of the root command: Commit at most once and only after the
\* loop returned a non-empty message without error; Push only after a
\* successful Commit and the answer Yes to pushing; Tag only after a successful
\* Commit and the answer Yes to tagging; PushTags only right after a successful
\* Tag; a failed collaborator (git operation or loop) ends the run, and no
\* step follows it.
C27_OrchestratorOrdering ==
    /\ [](/\ Cardinality(Invoked({"commit"})) <= 1
          /\ \A j \in Invoked({"commit"}) :
                /\ lpc = "done"
                /\ lerr = ""
                /\ finalMessage # <<>>
                /\ gitLog[j].arg = finalMessage
          /\ \A j \in Invoked({"push"}) :
                /\ SucceededBefore("commit", j)
                /\ Answered("Would you like to push the commits?", "yes")
          /\ \A j \in Invoked({"tag"}) :
                /\ SucceededBefore("commit", j)
                /\ Answered("Would you like to tag the commit?", "yes")
          /\ \A j \in Invoked({"pushTags"}) :
                j > 1 /\ gitLog[j - 1].op = "tag" /\ gitLog[j - 1].ok
          /\ \A j \in 1..Len(gitLog) :
                ~gitLog[j].ok => (j = Len(gitLog) /\ rpc = "fatal")
          /\ (lerr # "" /\ rpc # "loop") =>
                (rpc = "fatal" /\ Invoked({"commit", "push", "tag", "pushTags"}) = {}))
    /\ [][rpc # "fatal"]_vars

C27_Witness ==
    /\ rpc = "finished"
    /\ Len(callLog) >= 2
    /\ Answered("Would you like to push the commits?", "yes")
    /\ Answered("Would you like to tag the commit?", "yes")
    /\ Len(gitLog) = 4
    /\ gitLog[1].op = "commit"
    /\ gitLog[2].op = "push"
    /\ gitLog[3].op = "tag"
    /\ gitLog[4].op = "pushTags"

\* C28: the staging gate: StageAll only when nothing is staged and the answer
\* to "Would you like to add all changes?" is Yes; with staged changes the run
\* goes to the diff without the question and without staging; on the answer No
\* (or an interrupt), or with neither staged nor unstaged changes, the run
\* exits with no LLM call and no Commit.
C28_StagingGate ==
    /\ \A j \in Invoked({"add"}) :
          /\ tree # <<>>
          /\ ~tree[1]
          /\ Answered("Would you like to add all changes?", "yes")
    /\ (tree # <<>> /\ tree[1]) =>
          /\ ~Asked("Would you like to add all changes?")
          /\ Invoked({"add"}) = {}
          /\ rpc \notin {"start", "stagePrompt"}
          /\ (rpc = "exited") => Asked("Would you like to push the commits?")
    /\ (\/ tree = <<FALSE, FALSE>>
        \/ Answered("Would you like to add all changes?", "no")
        \/ Answered("Would you like to add all changes?", "interrupt")) =>
          /\ rpc = "exited"
          /\ callLog = <<>>
          /\ gitLog = <<>>
          /\ text = <<>>

C28_Witness ==
    /\ tree = <<FALSE, TRUE>>
    /\ Answered("Would you like to add all changes?", "yes")
    /\ Invoked({"add"}) = {1}
    /\ gitLog[1].ok
    /\ Len(callLog) >= 1
    /\ Invoked({"commit"}) # {}

(***************************************************************************)
(* The spinner under concurrent callers (SpecSpinner)                      *)
(***************************************************************************)
\* Caller t is past the check of SprinnerStart that found a spinner running.
StartFoundRunning(t) == cpc[t] = "startCheck" /\ spinnerProgram # 0

\* Caller t is past the check of SprinnerStop that found no spinner running.
StopFoundNone(t) == cpc[t] = "stopCheck" /\ spinnerProgram = 0

\* C15: spinnerProgram is guarded by the mutex: under every interleaving of
\* SprinnerStart and SprinnerStop at most one spinner program exists, and it is
\* the one spinnerProgram refers to; a start while one is running and a stop
\* while none is running return without changing anything.
C15_AtMostOneSpinner ==
    /\ [](/\ Cardinality(live) <= 1
          /\ live = (IF spinnerProgram = 0 THEN {} ELSE {spinnerProgram})
          /\ \A t \in DOMAIN cpc : cpc[t] # "panic")
    /\ [][\A t \in DOMAIN cpc :
            ((StartFoundRunning(t) \/ StopFoundNone(t)) /\ cpc'[t] # cpc[t]) =>
                /\ cpc'[t] = "unlock"
                /\ UNCHANGED <<spinnerProgram, live, created>>]_vars
    /\ [][\A t \in DOMAIN cpc :
            (cpc[t] = "unlock" /\ cpc'[t] # cpc[t]) =>
                /\ cpc'[t] = "idle"
                /\ UNCHANGED <<spinnerProgram, live, created>>]_vars

C15_Witness ==
    /\ created >= 2
    /\ Cardinality(live) = 1
    /\ \E t, u \in DOMAIN cpc :
          /\ cpc[t] = "startLock"
          /\ cpc[u] = "unlock"
          /\ spinnerMutex = u
          /\ spinnerProgram = created

\* C34: the goroutine launched by SprinnerStart runs exactly the program its
\* own call created: it never dereferences a nil spinnerProgram and no program
\* is run by two goroutines, however SprinnerStop and later SprinnerStart
\* calls interleave with its scheduling.
C34_GoroutineRunsOwnProgram ==
    /\ \A g \in 1..Len(goroutines) :
          /\ goroutines[g].state # "nil dereference"
          /\ (goroutines[g].state = "running") => (goroutines[g].ran = g)
    /\ \A g, h \in 1..Len(goroutines) :
          (/\ g # h
           /\ goroutines[g].state = "running"
           /\ goroutines[h].state = "running") =>
              goroutines[g].ran # goroutines[h].ran

(***************************************************************************)
(* The prompt and the deadline of every LLM call (SpecLoop)                *)
(***************************************************************************)
\* The pieces sub occur consecutively in seq.
Contains(seq, sub) ==
    \E i \in 1..(Len(seq) - Len(sub) + 1) :
        SubSeq(seq, i, i + Len(sub) - 1) = sub

\* The piece p occurs in seq.
HasPiece(seq, p) == \E i \in 1..Len(seq) : seq[i] = p

\* C21: for totalChunks = 1 the prompt holds no chunk-position framing text
\* (neither the "too big ... chunked" note nor a "Chunk i of N:" header); for
\* totalChunks > 1 it holds "Chunk i of N:" with the decimal index and total
\* that were supplied, and the note. (Stated of the latest call, in every
\* reachable state.)
C21_PromptFraming ==
    (callLog # <<>>) =>
        LET c == callLog[Len(callLog)]
        IN  /\ (c.totalChunks = 1) =>
                  /\ ~HasPiece(c.prompt, ChunkedNote)
                  /\ ~HasPiece(c.prompt, "Chunk ")
                  /\ ~HasPiece(c.prompt, " of ")
            /\ (c.totalChunks > 1) =>
                  /\ HasPiece(c.prompt, ChunkedNote)
                  /\ Contains(c.prompt,
                              <<"Chunk ">> \o Itoa(c.chunkNumber) \o <<" of ">>
                              \o Itoa(c.totalChunks) \o <<":", NL, NL>>
                              \o lchunks[c.chunkNumber])

C21_Witness ==
    /\ Len(lchunks) = 3
    /\ Len(callLog) >= 1
    /\ Contains(callLog[1].prompt, <<"Chunk ", "1", " of ", "3", ":">>)

\* C25: every LLM call has its own deadline, the configured timeout after the
\* moment the call starts, whatever time the user spent in prompts before; a
\* call that answers does so by its deadline, and a call that hits the deadline
\* yields no response and fails the loop with an empty message. (Stated of
\* the latest call, in every reachable state.)
C25_DeadlinePerCall ==
    (callLog # <<>>) =>
        LET c == callLog[Len(callLog)]
        IN  /\ c.deadline = c.start + llmAPICallTimeout
            /\ c.ok => c.end <= c.deadline
            /\ (c.error = "context deadline exceeded") =>
                  /\ c.end = c.deadline
                  /\ c.response = <<>>
                  /\ lpc = "failed"
                  /\ finalMessage = <<>>
                  /\ lerr # ""

C25_Witness ==
    /\ Len(callLog) >= 3
    /\ callLog[2].start > callLog[1].deadline
    /\ callLog[2].ok
    /\ callLog[3].error = "context deadline exceeded"
    /\ message = <<"f", "i", "x">>
    /\ finalMessage = <<>>

(***************************************************************************)
(* The document command (SpecDoc)                                          *)
(***************************************************************************)
\* processFiles has returned.
FilesProcessed ==
    /\ dpc \notin {"none", "start", "reading"}
    /\ docErr # "ERR_FAILED_TO_SETUP_LLM"

\* The entries of seq that hold the content of the k-th path.
EntriesOf(seq, k) == {j \in 1..Len(seq) : seq[j] = FileText(filePaths[k])}

\* C23: the concurrent reads of processFiles share no mutable state: when
\* every read succeeds processFiles returns exactly one entry per path,
\* under every interleaving of the callbacks.
C23_OneEntryPerPath ==
    (FilesProcessed /\ errs = <<>>) =>
        /\ Len(docContent) = Len(filePaths)
        /\ \A k \in 1..Len(filePaths) : Cardinality(EntriesOf(docContent, k)) = 1

\* C24: the batch of reads is fail-fast: when a read failed processFiles
\* returns the errors and no content (whatever the other reads collected),
\* nothing is chunked, no documentation is generated and none is saved.
C24_FailFastBatch ==
    /\ (FilesProcessed /\ errs # <<>>) =>
          /\ docContent = <<>>
          /\ dpc = "failed"
          /\ docErr \in {"ERR_FAILED_TO_OPEN_FILE", "ERR_FAILED_TO_READ_FILE"}
          /\ spc = "none"
          /\ docLog = <<>>
          /\ finalDocumentation = <<>>
          /\ saved = <<>>
    /\ (docLog # <<>> \/ saved # <<>>) => errs = <<>>

C24_Witness ==
    /\ dpc = "failed"
    /\ Len(errs) = 1
    /\ contentOfAllFiles # <<>>
    /\ docContent = <<>>

(***************************************************************************)
(* The order of the chunks (SpecOrder)                                     *)
(***************************************************************************)
\* The chunk number a call must carry: one more than that of the previous
\* call when both belong to one pass, 1 when the call opens a pass.
ExpectedNumber(numbers, samePass, j) ==
    IF j > 1 /\ samePass THEN numbers[j - 1] + 1 ELSE 1

\* C22: chunks are presented in source order with 1-based positions: in the
\* commit-message loop and in processChunks the chunk number of a call is 1
\* when it opens a pass, one more than that of the previous call otherwise,
\* and the chunk sent is the chunk of that position. (Stated of the latest
\* call of either log, in every reachable state.)
C22_ChunksInSourceOrder ==
    /\ (callLog # <<>>) =>
          LET j == Len(callLog)
          IN  /\ callLog[j].chunkNumber =
                    ExpectedNumber(
                        [i \in 1..j |-> callLog[i].chunkNumber],
                        j > 1 /\ callLog[j - 1].attempt = callLog[j].attempt, j)
              /\ callLog[j].totalChunks = Len(lchunks)
              /\ Contains(callLog[j].prompt,
                          <<NL, NL>> \o lchunks[callLog[j].chunkNumber]
                          \o <<NL, NL>>)
    /\ (docLog # <<>>) =>
          LET j == Len(docLog)
          IN  /\ docLog[j].chunkNumber =
                    ExpectedNumber([i \in 1..j |-> docLog[i].chunkNumber], TRUE, j)
              /\ docLog[j].totalChunks = Len(lchunks)
              /\ docLog[j].chunk = lchunks[docLog[j].chunkNumber]
    /\ (dpc = "done") => Len(docLog) = Len(lchunks)

C22_Witness ==
    /\ dpc = "done"
    /\ Len(lchunks) = MaxTotalChunks
    /\ Len(docLog) = MaxTotalChunks
    /\ docLog[MaxTotalChunks].chunkNumber = MaxTotalChunks
    /\ docLog[MaxTotalChunks].chunk = ChunkText(MaxTotalChunks)

(***************************************************************************)
(* The prompts (SpecPrompt)                                                *)
(***************************************************************************)
\* The last message Update received.
LastKey == IF keys = <<>> THEN "" ELSE keys[Len(keys)]

\* The prompt is over: it returned, or the process ended.
PromptEnded == ppc \in {"returned", "exited", "panic"}

\* A prompt that returned did so on Enter, with the choice under the cursor,
\* which is one of the choices and not empty; a prompt that exited the
\* process did so on an interrupt key.
ReturnsTheSelection ==
    /\ (ppc = "returned") =>
          /\ LastKey = "enter"
          /\ choice = choices[cursor + 1]
          /\ choice # ""
          /\ (defaultChoice = <<>>) => result = <<choice>>
    /\ (ppc = "exited") => (LastKey \in InterruptKeys /\ result = <<>>)
    /\ (ppc = "panic") => result = <<>>

\* C29 as stated: a pending prompt ends only by Enter, returning the choice
\* under the cursor, or by an interrupt key, exiting the process.
C29_OnlyEnterOrInterrupt ==
    /\ ReturnsTheSelection
    /\ PromptEnded => ppc \in {"returned", "exited"}

\* C29, amended: a pending prompt ends by Enter, returning the choice under
\* the cursor, by an interrupt key, exiting the process, or by a failure of
\* the terminal program, which panics; a prompt that returned never hands an
\* empty or unselected choice to its caller.
C29_EnterInterruptOrPanic ==
    /\ [](ReturnsTheSelection)
    /\ [][(ppc = "open" /\ ppc' # "open") =>
            \/ (ppc' = "quit" /\ LastKey' = "enter")
            \/ (ppc' = "exited" /\ LastKey' \in InterruptKeys)
            \/ (ppc' = "panic" /\ keys' = keys)]_vars
    /\ [][(ppc' = "returned") => (ppc = "quit" \/ ppc = "returned")]_vars

C29_Witness ==
    /\ ppc = "returned"
    /\ choices = MainChoices
    /\ keys = <<"down", "x", "enter">>
    /\ result = <<"Try again">>

\* C30: the cursor of the yes/no prompt starts on the default choice (Yes for
\* true, No for false), Enter without navigation returns the default, and the
\* result is true exactly when "Yes" is under the cursor at Enter.
C30_YesNoDefault ==
    (defaultChoice # <<>>) =>
        /\ (keys = <<>>) =>
              choices[cursor + 1] = (IF defaultChoice[1] THEN "Yes" ELSE "No")
        /\ (ppc = "returned") =>
              /\ result = <<(choices[cursor + 1] = "Yes")>>
              /\ (keys = <<"enter">>) => result = defaultChoice

C30_Witness ==
    /\ ppc = "returned"
    /\ defaultChoice = <<FALSE>>
    /\ keys = <<"up", "enter">>
    /\ result = <<TRUE>>

\* The keys that move the cursor.
DownKeys == {"down", "j"}
UpKeys == {"up", "k"}

\* The position a cursor that started at start has after the key presses ks
\* on a circular list of n choices.
CircularPosition(start, ks, n) ==
    (start + Cardinality({i \in 1..Len(ks) : ks[i] \in DownKeys})
           - Cardinality({i \in 1..Len(ks) : ks[i] \in UpKeys})) % n

\* The cursor the prompt was opened with.
StartCursor == IF defaultChoice = <<>> THEN 0 ELSE DefaultIndex(defaultChoice[1])

\* C38: in a prompt the cursor is always an index of choices, 'down' from the
\* last choice goes to the first and 'up' from the first goes to the last, a
\* 'down' followed by an 'up' puts the cursor back where it was, and Enter
\* selects choices[cursor], which exists.
C38_CursorStaysInRange ==
    /\ [](ppc # "none" =>
            /\ Len(choices) > 0
            /\ cursor \in 0..(Len(choices) - 1)
            /\ cursor = CircularPosition(StartCursor, keys, Len(choices))
            /\ (/\ Len(keys) >= 2
                /\ keys[Len(keys) - 1] \in DownKeys
                /\ keys[Len(keys)] \in UpKeys) =>
                   cursor = CircularPosition(StartCursor,
                                SubSeq(keys, 1, Len(keys) - 2), Len(choices)))
    /\ [][(keys' # keys /\ LastKey' \in DownKeys) =>
            cursor' = (IF cursor = Len(choices) - 1 THEN 0 ELSE cursor + 1)]_vars
    /\ [][(keys' # keys /\ LastKey' \in UpKeys) =>
            cursor' = (IF cursor = 0 THEN Len(choices) - 1 ELSE cursor - 1)]_vars
    /\ [][(keys' # keys /\ LastKey' = "enter") =>
            /\ cursor + 1 \in DOMAIN choices
            /\ choice' = choices[cursor + 1]
            /\ cursor' = cursor]_vars

C38_Witness ==
    /\ ppc = "returned"
    /\ choices = MainChoices
    /\ keys = <<"up", "down", "enter">>
    /\ cursor = 0
    /\ result = <<"Approve commit message">>

====
